---- MODULE Spec2Model ----
(***************************************************************************)
(* llm-json: extraction, repair, partial parsing and the streaming session *)
(* that composes them.  Text is a sequence of one-character strings; a     *)
(* position i of this module is the JavaScript index i - 1.                *)
(***************************************************************************)
EXTENDS Integers, Sequences, FiniteSets, TLC

VARIABLES
  buf, depth, inStr, esc, started,  \* the locals of createStreamingParser
  src, pos,                         \* the chunk source and how much of it was written
  charwise,                         \* every write so far appended one character
  reused,                           \* reset was called after something was written
  text,                             \* the text the caller hands to parse, repair, ...
  doc,                              \* how text was composed: prose, value, fence
  schema,                           \* the schema of the caller, NoSchema for none
  op, ret                           \* the last call and what it returned

vars ==
  <<buf, depth, inStr, esc, started, src, pos, charwise, reused, text, doc,
    schema, op, ret>>

\* ---------------------------------------------------------------- bounds
\* longest text drawn from an alphabet
MaxLen == 4
\* longest chunk one write appends
MaxChunk == 2
\* most elements of a generated array
MaxElems == 2
\* longest prose before and after an embedded value
MaxProse == 2

\* ------------------------------------------------------- character classes
Digits == {"0", "1", "2", "3", "4", "5", "6", "7", "8", "9"}

Lower == {"a", "b", "c", "d", "e", "f", "g", "h", "i", "j", "k", "l", "m",
          "n", "o", "p", "q", "r", "s", "t", "u", "v", "w", "x", "y", "z"}

Upper == {"A", "B", "C", "D", "E", "F", "G", "H", "I", "J", "K", "L", "M",
          "N", "O", "P", "Q", "R", "S", "T", "U", "V", "W", "X", "Y", "Z"}

\* /\s/ restricted to the white space of the modelled alphabet
IsWs(c) == c \in {" ", "\n", "\t", "\r"}

IsDigit(c) == c \in Digits

\* /[\w$_]/
IsWord(c) == c \in Lower \cup Upper \cup Digits \cup {"_", "$"}

\* ------------------------------------------------------------ text helpers
\* s.slice(a, b) with JavaScript offsets a, b
Slice(s, a, b) ==
  LET lo == IF a < 0 THEN 0 ELSE a
      hi == IF b > Len(s) THEN Len(s) ELSE b
  IN IF lo >= hi THEN <<>> ELSE SubSeq(s, lo + 1, hi)

\* the text w stands in s at position i
At(s, i, w) ==
  /\ i >= 1
  /\ i + Len(w) - 1 <= Len(s)
  /\ \A k \in 1..Len(w) : s[i + k - 1] = w[k]

\* first position >= i that does not hold white space
RECURSIVE SkipWs(_, _)
SkipWs(s, i) == IF i <= Len(s) /\ IsWs(s[i]) THEN SkipWs(s, i + 1) ELSE i

RECURSIVE TrimEnd(_)
TrimEnd(s) ==
  IF s # <<>> /\ IsWs(s[Len(s)]) THEN TrimEnd(SubSeq(s, 1, Len(s) - 1)) ELSE s

\* String.prototype.trim
Trim(s) == LET i == SkipWs(s, 1) IN TrimEnd(SubSeq(s, i, Len(s)))

\* lower-case form of a character, for the /i flag
ToLower(c) ==
  CASE c = "J" -> "j" [] c = "S" -> "s" [] c = "O" -> "o" [] c = "N" -> "n"
    [] OTHER -> c

\* ------------------------------------------------------------- extract.ts
\* The grave accent cannot be written inside a TLA+ string; "~", a character
\* no rule of the program looks at, stands for it.
Tick == "~"

Fence == <<Tick, Tick, Tick>>

\* first p >= i where the lazy capture of the stripMd pattern can stop:
\* the text goes on with an optional line feed and the closing fence
RECURSIVE FenceClose(_, _)
FenceClose(s, i) ==
  IF i > Len(s) THEN 0
  ELSE IF At(s, i, Fence) \/ (s[i] = "\n" /\ At(s, i + 1, Fence)) THEN i
  ELSE FenceClose(s, i + 1)

\* s.replace(/FENCE(?:json)?\s*\n?([\s\S]*?)\n?FENCE/g, '$1')
RECURSIVE StripFences(_, _)
StripFences(s, i) ==
  IF i > Len(s) THEN <<>>
  ELSE IF At(s, i, Fence)
    THEN LET a == IF At(s, i + 3, <<"j", "s", "o", "n">>) THEN i + 7 ELSE i + 3
             b == SkipWs(s, a)
             p == FenceClose(s, b)
         IN IF p = 0 THEN <<s[i]>> \o StripFences(s, i + 1)
            ELSE LET q == IF s[p] = "\n" THEN p + 4 ELSE p + 3
                 IN SubSeq(s, b, p - 1) \o StripFences(s, q)
    ELSE <<s[i]>> \o StripFences(s, i + 1)

stripMd(s) == Trim(StripFences(s, 1))

\* start moved to every opening bracket, whatever the depth
OpenStartAlways(st, i) == i - 1

\* if (depth === 0) start = i: the offset start holds after an opening
\* bracket at position i
OpenStart(st, i) == IF st.depth = 0 THEN i - 1 ELSE st.start

\* state of findJson's scan; results and positions grow together
FindInit ==
  [depth |-> 0, inStr |-> FALSE, esc |-> FALSE, start |-> -1,
   results |-> <<>>, positions |-> <<>>]

RECURSIVE FindScan(_, _, _, _)
FindScan(s, all, i, st) ==
  IF i > Len(s) THEN st
  ELSE LET c == s[i] IN
    IF st.esc THEN FindScan(s, all, i + 1, [st EXCEPT !.esc = FALSE])
    ELSE IF c = "\\" /\ st.inStr
      THEN FindScan(s, all, i + 1, [st EXCEPT !.esc = TRUE])
    ELSE IF c = "\""
      THEN FindScan(s, all, i + 1, [st EXCEPT !.inStr = ~st.inStr])
    ELSE IF st.inStr THEN FindScan(s, all, i + 1, st)
    ELSE IF c \in {"{", "["}
      THEN FindScan(s, all, i + 1,
             [st EXCEPT !.start = OpenStart(st, i), !.depth = st.depth + 1])
    ELSE IF c \in {"}", "]"}
      THEN LET d == st.depth - 1 IN
           IF d = 0 /\ st.start >= 0
             THEN LET hit ==
                        [st EXCEPT !.depth = d,
                           !.results = Append(st.results, Slice(s, st.start, i)),
                           !.positions = Append(st.positions,
                                           [start |-> st.start, end |-> i])]
                  IN IF ~all THEN hit ELSE FindScan(s, all, i + 1, hit)
             ELSE FindScan(s, all, i + 1, [st EXCEPT !.depth = d])
    ELSE FindScan(s, all, i + 1, st)

\* a null json is the empty text: a candidate always holds its brackets
Null == <<>>

findJson(s, all) ==
  LET st == FindScan(s, all, 1, FindInit) IN
  IF Len(st.results) = 0
    THEN [json |-> Null, start |-> 0, end |-> 0, multiple |-> <<>>]
    ELSE [json |-> st.results[1], start |-> st.positions[1].start,
          end |-> st.positions[1].end, multiple |-> st.results]

\* extract scanning the caller's text as it came
extractRaw(input) ==
  IF input = <<>> THEN [json |-> Null, start |-> 0, end |-> 0]
  ELSE findJson(input, FALSE)

extract(input) ==
  IF input = <<>> THEN [json |-> Null, start |-> 0, end |-> 0]
  ELSE findJson(stripMd(input), FALSE)

extractAll(input) ==
  IF input = <<>> THEN [json |-> Null, start |-> 0, end |-> 0, multiple |-> <<>>]
  ELSE findJson(stripMd(input), TRUE)

\* -------------------------------------------------------------- repair.ts
Warn(code) == [code |-> code, message |-> ""]

\* s.replace(/FENCEjson?\s*\n?/gi, '')
RECURSIVE StripJsonFence(_, _)
StripJsonFence(s, i) ==
  IF i > Len(s) THEN <<>>
  ELSE IF /\ At(s, i, Fence)
          /\ i + 5 <= Len(s)
          /\ <<ToLower(s[i + 3]), ToLower(s[i + 4]), ToLower(s[i + 5])>>
               = <<"j", "s", "o">>
    THEN LET a == IF i + 6 <= Len(s) /\ ToLower(s[i + 6]) = "n"
                    THEN i + 7 ELSE i + 6
         IN StripJsonFence(s, SkipWs(s, a))
    ELSE <<s[i]>> \o StripJsonFence(s, i + 1)

\* s.replace(/FENCE\s*$/g, ''): the first fence that only white space follows
RECURSIVE StripEndFence(_, _)
StripEndFence(s, i) ==
  IF i > Len(s) THEN s
  ELSE IF At(s, i, Fence) /\ SkipWs(s, i + 3) > Len(s) THEN SubSeq(s, 1, i - 1)
  ELSE StripEndFence(s, i + 1)

\* first position >= i that holds a line feed, or the end
RECURSIVE LineEnd(_, _)
LineEnd(s, i) == IF i <= Len(s) /\ s[i] # "\n" THEN LineEnd(s, i + 1) ELSE i

\* s.replace(/\/\/[^\n]*/g, '')
RECURSIVE StripLineComments(_, _)
StripLineComments(s, i) ==
  IF i > Len(s) THEN <<>>
  ELSE IF At(s, i, <<"/", "/">>) THEN StripLineComments(s, LineEnd(s, i + 2))
  ELSE <<s[i]>> \o StripLineComments(s, i + 1)

\* first position >= i where "*/" stands, or 0
RECURSIVE BlockEnd(_, _)
BlockEnd(s, i) ==
  IF i > Len(s) THEN 0
  ELSE IF At(s, i, <<"*", "/">>) THEN i
  ELSE BlockEnd(s, i + 1)

\* s.replace(/\/\*[\s\S]*?\*\//g, '')
RECURSIVE StripBlockComments(_, _)
StripBlockComments(s, i) ==
  IF i > Len(s) THEN <<>>
  ELSE IF At(s, i, <<"/", "*">>) /\ BlockEnd(s, i + 2) # 0
    THEN StripBlockComments(s, BlockEnd(s, i + 2) + 2)
  ELSE <<s[i]>> \o StripBlockComments(s, i + 1)

\* s.replace(/,\s*([}\]])/g, '$1')
RECURSIVE StripTrailingCommas(_, _)
StripTrailingCommas(s, i) ==
  IF i > Len(s) THEN <<>>
  ELSE LET j == SkipWs(s, i + 1) IN
    IF s[i] = "," /\ j <= Len(s) /\ s[j] \in {"}", "]"}
      THEN <<s[j]>> \o StripTrailingCommas(s, j + 1)
      ELSE <<s[i]>> \o StripTrailingCommas(s, i + 1)

\* s.replace(/,\s*,/g, ','): matches do not overlap, so the second comma of a
\* match never starts another one
RECURSIVE CollapseCommas(_, _)
CollapseCommas(s, i) ==
  IF i > Len(s) THEN <<>>
  ELSE LET j == SkipWs(s, i + 1) IN
    IF s[i] = "," /\ j <= Len(s) /\ s[j] = ","
      THEN <<",">> \o CollapseCommas(s, j + 1)
      ELSE <<s[i]>> \o CollapseCommas(s, i + 1)

\* first position >= i that does not hold a /[\w$_]/ character
RECURSIVE SkipWord(_, _)
SkipWord(s, i) == IF i <= Len(s) /\ IsWord(s[i]) THEN SkipWord(s, i + 1) ELSE i

\* /^(true|false|null|undefined|None|True|False)$/
Reserved ==
  { <<"t", "r", "u", "e">>, <<"f", "a", "l", "s", "e">>, <<"n", "u", "l", "l">>,
    <<"u", "n", "d", "e", "f", "i", "n", "e", "d">>, <<"N", "o", "n", "e">>,
    <<"T", "r", "u", "e">>, <<"F", "a", "l", "s", "e">> }

\* the escaped character copied as it is
EscapedAsIs(st, c) == <<c>>

\* what the esc branch of repairPass appends for the character c
Escaped(st, c) ==
  IF st.inStr /\ st.strQuote = "'" /\ c = "\"" THEN <<"\\", "\"">> ELSE <<c>>

\* the locals of repairPass before its loop
PassInit ==
  [r |-> <<>>, inStr |-> FALSE, strQuote |-> "", esc |-> FALSE,
   hadSingleQuote |-> FALSE, warnings |-> <<>>]

\* the branch of repairPass for '{' and ',' outside a string: copy the
\* character and the white space, open a string or quote a bare key
RECURSIVE PassLoop(_, _, _)
\* the branch with the bare key wrapped and no warning pushed
KeyBranchNoWarning(s, i, st) ==
  LET j  == SkipWs(s, i + 1)
      r1 == st.r \o SubSeq(s, i, j - 1)
  IN IF j > Len(s) THEN [st EXCEPT !.r = r1]
     ELSE IF s[j] = "\""
       THEN PassLoop(s, j + 1, [st EXCEPT !.r = Append(r1, "\""),
                                          !.inStr = TRUE, !.strQuote = "\""])
     ELSE IF s[j] = "'"
       THEN PassLoop(s, j + 1, [st EXCEPT !.r = Append(r1, "\""),
                                          !.inStr = TRUE, !.strQuote = "'",
                                          !.hadSingleQuote = TRUE])
     ELSE LET k == SkipWord(s, j)
              w == SubSeq(s, j, k - 1)
          IN IF k > j /\ w \notin Reserved
               THEN PassLoop(s, k, [st EXCEPT !.r = r1 \o <<"\"">> \o w \o <<"\"">>])
               ELSE PassLoop(s, k, [st EXCEPT !.r = r1])

KeyBranch(s, i, st) ==
  LET j  == SkipWs(s, i + 1)
      r1 == st.r \o SubSeq(s, i, j - 1)
  IN IF j > Len(s) THEN [st EXCEPT !.r = r1]
     ELSE IF s[j] = "\""
       THEN PassLoop(s, j + 1, [st EXCEPT !.r = Append(r1, "\""),
                                          !.inStr = TRUE, !.strQuote = "\""])
     ELSE IF s[j] = "'"
       THEN PassLoop(s, j + 1, [st EXCEPT !.r = Append(r1, "\""),
                                          !.inStr = TRUE, !.strQuote = "'",
                                          !.hadSingleQuote = TRUE])
     ELSE LET k == SkipWord(s, j)
              w == SubSeq(s, j, k - 1)
          IN IF k > j /\ w \notin Reserved
               THEN PassLoop(s, k,
                      [st EXCEPT !.r = r1 \o <<"\"">> \o w \o <<"\"">>,
                                 !.warnings = Append(st.warnings,
                                                Warn("unquoted_key_fixed"))])
               ELSE PassLoop(s, k, [st EXCEPT !.r = r1])

\* the while loop of repairPass; i is the position read next
PassLoop(s, i, st) ==
  IF i > Len(s) THEN st
  ELSE LET c == s[i] IN
    IF st.esc
      THEN PassLoop(s, i + 1, [st EXCEPT !.esc = FALSE,
                                         !.r = st.r \o Escaped(st, c)])
    ELSE IF c = "\\" /\ st.inStr
      THEN IF st.strQuote = "'"
             THEN PassLoop(s, i + 1, [st EXCEPT !.esc = TRUE])
             ELSE PassLoop(s, i + 1, [st EXCEPT !.esc = TRUE,
                                                !.r = Append(st.r, c)])
    ELSE IF c = "\""
      THEN IF st.inStr /\ st.strQuote = "'"
             THEN PassLoop(s, i + 1, [st EXCEPT !.r = st.r \o <<"\\", "\"">>])
           ELSE IF st.inStr /\ st.strQuote = "\""
             THEN PassLoop(s, i + 1, [st EXCEPT !.inStr = FALSE,
                                                !.strQuote = "",
                                                !.r = Append(st.r, "\"")])
           ELSE IF st.inStr
             THEN PassLoop(s, i + 1, [st EXCEPT !.r = Append(st.r, "\"")])
           ELSE PassLoop(s, i + 1, [st EXCEPT !.inStr = TRUE,
                                              !.strQuote = "\"",
                                              !.r = Append(st.r, "\"")])
    ELSE IF c = "'"
      THEN IF st.inStr /\ st.strQuote = "\""
             THEN PassLoop(s, i + 1, [st EXCEPT !.r = Append(st.r, "'")])
           ELSE IF st.inStr /\ st.strQuote = "'"
             THEN PassLoop(s, i + 1, [st EXCEPT !.inStr = FALSE,
                                                !.strQuote = "",
                                                !.hadSingleQuote = TRUE,
                                                !.r = Append(st.r, "\"")])
           ELSE IF st.inStr
             THEN PassLoop(s, i + 1, [st EXCEPT !.r = Append(st.r, "\"")])
           ELSE PassLoop(s, i + 1, [st EXCEPT !.inStr = TRUE,
                                              !.strQuote = "'",
                                              !.hadSingleQuote = TRUE,
                                              !.r = Append(st.r, "\"")])
    ELSE IF st.inStr THEN PassLoop(s, i + 1, [st EXCEPT !.r = Append(st.r, c)])
    ELSE IF c \in {"{", ","} THEN KeyBranch(s, i, st)
    ELSE IF At(s, i, <<"N", "o", "n", "e">>)
      THEN PassLoop(s, i + 4,
             [st EXCEPT !.r = st.r \o <<"n", "u", "l", "l">>,
                        !.warnings = Append(st.warnings,
                                       Warn("python_literal_converted"))])
    ELSE IF At(s, i, <<"T", "r", "u", "e">>)
      THEN PassLoop(s, i + 4,
             [st EXCEPT !.r = st.r \o <<"t", "r", "u", "e">>,
                        !.warnings = Append(st.warnings,
                                       Warn("python_literal_converted"))])
    ELSE IF At(s, i, <<"F", "a", "l", "s", "e">>)
      THEN PassLoop(s, i + 5,
             [st EXCEPT !.r = st.r \o <<"f", "a", "l", "s", "e">>,
                        !.warnings = Append(st.warnings,
                                       Warn("python_literal_converted"))])
    ELSE PassLoop(s, i + 1, [st EXCEPT !.r = Append(st.r, c)])

\* repairPass(s, warnings): the rewritten text and the warnings it pushed
repairPass(s) ==
  LET st == PassLoop(s, 1, PassInit) IN
  [r |-> st.r,
   warnings |-> IF st.hadSingleQuote
                  THEN Append(st.warnings, Warn("single_quotes_replaced"))
                  ELSE st.warnings]

\* ------------------------------------------------------------ JSON values
\* A parsed value is a tagged record; an object is a function from its keys
\* (texts) to values, so member order never matters and a repeated key keeps
\* its last value.  A number m * 10^e is kept with m free of trailing zeros.
VNull == [t |-> "null"]

VBool(b) == [t |-> "bool", b |-> b]

VStr(s) == [t |-> "str", s |-> s]

VArr(a) == [t |-> "arr", a |-> a]

VObj(o) == [t |-> "obj", o |-> o]

NaN == [t |-> "nan"]

RECURSIVE VNum(_, _)
VNum(m, e) ==
  IF m = 0 THEN [t |-> "num", m |-> 0, e |-> 0]
  ELSE IF m % 10 = 0 THEN VNum(m \div 10, e + 1)
  ELSE [t |-> "num", m |-> m, e |-> e]

EmptyObj == [k \in {} |-> VNull]

\* obj[key] = v
Put(o, key, v) ==
  [k \in DOMAIN o \cup {key} |-> IF k = key THEN v ELSE o[k]]

DigitVal(c) ==
  CASE c = "0" -> 0 [] c = "1" -> 1 [] c = "2" -> 2 [] c = "3" -> 3
    [] c = "4" -> 4 [] c = "5" -> 5 [] c = "6" -> 6 [] c = "7" -> 7
    [] c = "8" -> 8 [] c = "9" -> 9

\* first position >= i that does not hold a digit
RECURSIVE SkipDigits(_, _)
SkipDigits(s, i) ==
  IF i <= Len(s) /\ IsDigit(s[i]) THEN SkipDigits(s, i + 1) ELSE i

\* the natural number written by the digits of s at positions a .. b - 1
RECURSIVE DigitsVal(_, _, _)
DigitsVal(s, a, b) ==
  IF b <= a THEN 0 ELSE 10 * DigitsVal(s, a, b - 1) + DigitVal(s[b - 1])

RECURSIVE Pow10(_)
Pow10(k) == IF k <= 0 THEN 1 ELSE 10 * Pow10(k - 1)

\* The number a decimal literal of s denotes: an optional '-' at position i,
\* integer digits up to ie, fraction digits in fs .. fe - 1 and exponent
\* digits in xs .. xe - 1 (an empty range stands for a missing part).
Decimal(s, i, ie, fs, fe, xneg, xs, xe) ==
  LET neg   == i <= Len(s) /\ s[i] = "-"
      is    == IF neg THEN i + 1 ELSE i
      pow   == IF fe > fs THEN fe - fs ELSE 0
      whole == DigitsVal(s, is, ie) * Pow10(pow) + DigitsVal(s, fs, fe)
      ex    == DigitsVal(s, xs, xe)
  IN VNum(IF neg THEN 0 - whole ELSE whole,
          (IF xneg THEN 0 - ex ELSE ex) - pow)

Thrown(msg) == [threw |-> TRUE, message |-> msg]

\* ----------------------------------------------------- JSON.parse (strict)
\* ECMA-404 grammar.  Every operator returns [ok, v, i]: whether a value was
\* read at position i, the value, and the position after it.
Bad == [ok |-> FALSE]

Good(v, i) == [ok |-> TRUE, v |-> v, i |-> i]

\* the character a two-character escape denotes ("\b" is kept as a token)
Unescape(c) ==
  CASE c = "n" -> "\n" [] c = "t" -> "\t" [] c = "r" -> "\r" [] c = "f" -> "\f"
    [] c = "b" -> "<BS>" [] OTHER -> c

\* the body of a string literal, from the position after the opening quote;
\* \uXXXX escapes are outside the modelled alphabet
RECURSIVE StrictChars(_, _, _)
StrictChars(s, i, acc) ==
  IF i > Len(s) THEN Bad
  ELSE IF s[i] = "\"" THEN Good(VStr(acc), i + 1)
  ELSE IF s[i] = "\\"
    THEN IF i + 1 <= Len(s) /\ s[i + 1] \in {"\"", "\\", "/", "b", "f", "n", "r", "t"}
           THEN StrictChars(s, i + 2, Append(acc, Unescape(s[i + 1])))
           ELSE Bad
  ELSE IF s[i] \in {"\n", "\t", "\r", "\f"} THEN Bad
  ELSE StrictChars(s, i + 1, Append(acc, s[i]))

StrictNumber(s, i) ==
  LET is == IF s[i] = "-" THEN i + 1 ELSE i
      ie == IF is <= Len(s) /\ s[is] = "0" THEN is + 1 ELSE SkipDigits(s, is)
      hasF == ie <= Len(s) /\ s[ie] = "."
      fe == IF hasF THEN SkipDigits(s, ie + 1) ELSE ie
      hasX == fe <= Len(s) /\ s[fe] \in {"e", "E"}
      sgn == hasX /\ fe + 1 <= Len(s) /\ s[fe + 1] \in {"+", "-"}
      xs == IF sgn THEN fe + 2 ELSE fe + 1
      xe == IF hasX THEN SkipDigits(s, xs) ELSE fe
  IN IF ie = is \/ (hasF /\ fe = ie + 1) \/ (hasX /\ xe = xs) THEN Bad
     ELSE Good(Decimal(s, i, ie, IF hasF THEN ie + 1 ELSE ie, fe,
                       sgn /\ s[fe + 1] = "-", IF hasX THEN xs ELSE xe, xe),
               xe)

RECURSIVE StrictValue(_, _), StrictElems(_, _, _), StrictMembers(_, _, _)
StrictValue(s, i0) ==
  LET i == SkipWs(s, i0) IN
  IF i > Len(s) THEN Bad
  ELSE IF s[i] = "{"
    THEN LET j == SkipWs(s, i + 1) IN
         IF j <= Len(s) /\ s[j] = "}" THEN Good(VObj(EmptyObj), j + 1)
         ELSE StrictMembers(s, j, EmptyObj)
  ELSE IF s[i] = "["
    THEN LET j == SkipWs(s, i + 1) IN
         IF j <= Len(s) /\ s[j] = "]" THEN Good(VArr(<<>>), j + 1)
         ELSE StrictElems(s, j, <<>>)
  ELSE IF s[i] = "\"" THEN StrictChars(s, i + 1, <<>>)
  ELSE IF s[i] = "-" \/ IsDigit(s[i]) THEN StrictNumber(s, i)
  ELSE IF At(s, i, <<"t", "r", "u", "e">>) THEN Good(VBool(TRUE), i + 4)
  ELSE IF At(s, i, <<"f", "a", "l", "s", "e">>) THEN Good(VBool(FALSE), i + 5)
  ELSE IF At(s, i, <<"n", "u", "l", "l">>) THEN Good(VNull, i + 4)
  ELSE Bad

\* the elements of an array from position i, acc holding those read so far
StrictElems(s, i, acc) ==
  LET e == StrictValue(s, i) IN
  IF ~e.ok THEN Bad
  ELSE LET j == SkipWs(s, e.i) IN
    IF j > Len(s) THEN Bad
    ELSE IF s[j] = "]" THEN Good(VArr(Append(acc, e.v)), j + 1)
    ELSE IF s[j] = "," THEN StrictElems(s, j + 1, Append(acc, e.v))
    ELSE Bad

\* the members of an object from position i, acc holding those read so far
StrictMembers(s, i0, acc) ==
  LET i == SkipWs(s, i0) IN
  IF i > Len(s) \/ s[i] # "\"" THEN Bad
  ELSE LET k == StrictChars(s, i + 1, <<>>) IN
    IF ~k.ok THEN Bad
    ELSE LET c == SkipWs(s, k.i) IN
      IF c > Len(s) \/ s[c] # ":" THEN Bad
      ELSE LET e == StrictValue(s, c + 1) IN
        IF ~e.ok THEN Bad
        ELSE LET j == SkipWs(s, e.i) IN
          IF j > Len(s) THEN Bad
          ELSE IF s[j] = "}" THEN Good(VObj(Put(acc, k.v.s, e.v)), j + 1)
          ELSE IF s[j] = "," THEN StrictMembers(s, j + 1, Put(acc, k.v.s, e.v))
          ELSE Bad

\* JSON.parse(s): the value, or a thrown SyntaxError
JSONparse(s) ==
  LET r == StrictValue(s, 1) IN
  IF r.ok /\ SkipWs(s, r.i) > Len(s) THEN [threw |-> FALSE, v |-> r.v]
  ELSE Thrown(<<"SyntaxError">>)

\* ------------------------------------------------------------- partial.ts
\* Every rule of doParse returns [threw, v, i]: the value read and the index
\* left in i, or the Error it threw.
Ret(v, i) == [threw |-> FALSE, v |-> v, i |-> i]

\* s[i], with "" for undefined
Peek(s, i) == IF i >= 1 /\ i <= Len(s) THEN s[i] ELSE ""

\* parseFloat on the text of s in a .. b - 1: the longest prefix that is a
\* decimal literal, NaN when there is none (parseNum never hands it a text
\* that starts with '+' or white space)
ParseFloat(s, a, b) ==
  LET t  == SubSeq(s, a, b - 1)
      is == IF Peek(t, 1) = "-" THEN 2 ELSE 1
      ie == SkipDigits(t, is)
      hasF == Peek(t, ie) = "."
      fe == IF hasF THEN SkipDigits(t, ie + 1) ELSE ie
      hasM == ie > is \/ (hasF /\ fe > ie + 1)
      sgn == Peek(t, fe) \in {"e", "E"} /\ Peek(t, fe + 1) \in {"+", "-"}
      xs == IF sgn THEN fe + 2 ELSE fe + 1
      xe == SkipDigits(t, xs)
      hasX == Peek(t, fe) \in {"e", "E"} /\ xe > xs
  IN IF ~hasM THEN NaN
     ELSE Decimal(t, 1, ie, IF hasF THEN ie + 1 ELSE ie, fe,
                  hasX /\ sgn /\ t[fe + 1] = "-",
                  IF hasX THEN xs ELSE fe, IF hasX THEN xe ELSE fe)

\* the loop of parseStr after take() dropped the opening character
RECURSIVE StrLoop(_, _, _, _, _)
StrLoop(s, opts, i, r, e) ==
  IF i > Len(s)
    THEN IF opts.allowPartialStrings THEN Ret(r, i)
         ELSE Thrown(<<"Unterminated string">>)
  ELSE LET c == s[i] IN
    IF e THEN StrLoop(s, opts, i + 1, Append(r, c), FALSE)
    ELSE IF c = "\\" THEN StrLoop(s, opts, i + 1, r, TRUE)
    ELSE IF c = "\"" THEN Ret(r, i + 1)
    ELSE StrLoop(s, opts, i + 1, Append(r, c), FALSE)

parseStr(s, opts, i) == StrLoop(s, opts, i + 1, <<>>, FALSE)

parseNum(s, opts, i) ==
  LET a  == IF Peek(s, i) = "-" THEN i + 1 ELSE i
      b  == SkipDigits(s, a)
      c  == IF Peek(s, b) = "." THEN SkipDigits(s, b + 1) ELSE b
      x  == Peek(s, c) \in {"e", "E"}
      d  == IF x /\ Peek(s, c + 1) \in {"+", "-"} THEN c + 2
            ELSE IF x THEN c + 1 ELSE c
      z  == IF x THEN SkipDigits(s, d) ELSE c
      n  == IF opts.allowPartialNumbers /\ z > i /\ s[z - 1] = "." THEN z - 1
            ELSE z
  IN Ret(ParseFloat(s, i, n), z)

RECURSIVE parseValue(_, _, _), ArrLoop(_, _, _, _), ObjLoop(_, _, _, _)
parseArr(s, opts, i) ==
  LET j == SkipWs(s, i + 1) IN
  IF Peek(s, j) = "]" THEN Ret(VArr(<<>>), j + 1) ELSE ArrLoop(s, opts, j, <<>>)

parseObj(s, opts, i) ==
  LET j == SkipWs(s, i + 1) IN
  IF Peek(s, j) = "}" THEN Ret(VObj(EmptyObj), j + 1)
  ELSE ObjLoop(s, opts, j, EmptyObj)

parseValue(s, opts, i0) ==
  LET i == SkipWs(s, i0)
      c == Peek(s, i)
  IN IF c = "{" THEN parseObj(s, opts, i)
     ELSE IF c = "[" THEN parseArr(s, opts, i)
     ELSE IF c = "\""
       THEN LET r == parseStr(s, opts, i) IN
            IF r.threw THEN r ELSE Ret(VStr(r.v), r.i)
     ELSE IF c = "-" \/ IsDigit(c) THEN parseNum(s, opts, i)
     ELSE IF At(s, i, <<"t", "r", "u", "e">>) THEN Ret(VBool(TRUE), i + 4)
     ELSE IF At(s, i, <<"f", "a", "l", "s", "e">>) THEN Ret(VBool(FALSE), i + 5)
     ELSE IF At(s, i, <<"n", "u", "l", "l">>) THEN Ret(VNull, i + 4)
     ELSE Thrown(<<"Unexpected token at ", i - 1>>)

\* the while loop of parseArr
ArrLoop(s, opts, i0, arr) ==
  IF i0 > Len(s)
    THEN IF opts.allowPartialArrays THEN Ret(VArr(arr), i0)
         ELSE Thrown(<<"Unterminated array">>)
  ELSE LET i == SkipWs(s, i0) IN
    IF Peek(s, i) = "]" THEN Ret(VArr(arr), i + 1)
    ELSE IF Peek(s, i) = "," THEN ArrLoop(s, opts, i + 1, arr)
    ELSE LET e == parseValue(s, opts, i) IN
      IF e.threw THEN e ELSE ArrLoop(s, opts, e.i, Append(arr, e.v))

\* the while loop of parseObj
ObjLoop(s, opts, i0, obj) ==
  IF i0 > Len(s)
    THEN IF opts.allowPartialObjects THEN Ret(VObj(obj), i0)
         ELSE Thrown(<<"Unterminated object">>)
  ELSE LET i == SkipWs(s, i0) IN
    IF Peek(s, i) = "}" THEN Ret(VObj(obj), i + 1)
    ELSE IF Peek(s, i) = "," THEN ObjLoop(s, opts, i + 1, obj)
    ELSE LET k == parseStr(s, opts, i) IN
      IF k.threw THEN k
      ELSE LET c == SkipWs(s, k.i) IN
        IF Peek(s, c) # ":"
          THEN IF opts.allowPartialObjects THEN Ret(VObj(obj), c)
               ELSE Thrown(<<"Expected colon">>)
          ELSE LET e == parseValue(s, opts, c + 1) IN
            IF e.threw THEN e ELSE ObjLoop(s, opts, e.i, Put(obj, k.v, e.v))

doParse(s, opts) == parseValue(s, opts, 1)

\* the defaults with arrays not allowed to be partial
DefaultOptsNoArrays ==
  [allowPartialStrings |-> TRUE, allowPartialObjects |-> TRUE,
   allowPartialArrays |-> FALSE, allowPartialNumbers |-> FALSE]

\* the options parsePartial falls back on
DefaultOpts ==
  [allowPartialStrings |-> TRUE, allowPartialObjects |-> TRUE,
   allowPartialArrays |-> TRUE, allowPartialNumbers |-> FALSE]

\* Result<T>: warnings <<>> stands for an absent or undefined warnings field
Success(d, w) == [ok |-> TRUE, data |-> d, warnings |-> w]

Failure(code, msg) == [ok |-> FALSE, error |-> [code |-> code, message |-> msg]]

\* an options argument that was left out
NoOptions == [k \in {} |-> TRUE]

\* { ...defaults, ...options }
Spread(defaults, options) ==
  [k \in DOMAIN defaults \cup DOMAIN options |->
     IF k \in DOMAIN options THEN options[k] ELSE defaults[k]]

\* the try around doParse: d is what doParse returned or threw
TryDoParse(d) ==
  IF d.threw
    THEN [ok |-> FALSE,
          error |-> [code |-> "truncated", message |-> d.message],
          partial |-> [confidence |-> "medium", complete |-> EmptyObj,
                       pending |-> <<>>]]
    ELSE Success(d.v, <<>>)

\* the try around JSON.parse: j is what JSON.parse returned or threw, d what
\* the catch block makes of the input
TryStrict(j, d) == IF ~j.threw THEN Success(j.v, <<>>) ELSE d

\* parsePartial without the try around doParse
parsePartialUncaught(input, options) ==
  IF input = <<>> THEN Failure("no_json_found", <<"Empty input">>)
  ELSE LET d == doParse(input, Spread(DefaultOpts, options)) IN
    TryStrict(JSONparse(input), IF d.threw THEN d ELSE Success(d.v, <<>>))

parsePartial(input, options) ==
  IF input = <<>> THEN Failure("no_json_found", <<"Empty input">>)
  ELSE TryStrict(JSONparse(input),
                 TryDoParse(doParse(input, Spread(DefaultOpts, options))))

\* ------------------------------------------------------- repair.ts: repair
\* the return statement of repair
Repaired(s, w) == [output |-> s, warnings |-> w, valid |-> ~JSONparse(s).threw]

\* the two comma replacements: p is the result of repairPass, s what the
\* trailing-comma replacement made of its text
\* the same with the warning pushed when either replacement changed the text
FixCommasWarnsBoth(p, s) ==
  Repaired(CollapseCommas(s, 1),
           IF CollapseCommas(s, 1) # p.r
             THEN Append(p.warnings, Warn("trailing_comma_removed"))
           ELSE p.warnings)

FixCommas(p, s) ==
  Repaired(CollapseCommas(s, 1),
           IF s # p.r THEN Append(p.warnings, Warn("trailing_comma_removed"))
           ELSE p.warnings)

\* the steps of repair after repairPass
AfterPass(p) == FixCommas(p, StripTrailingCommas(p.r, 1))

repair(input) ==
  IF input = <<>> THEN [output |-> <<>>, warnings |-> <<>>, valid |-> FALSE]
  ELSE AfterPass(repairPass(
         StripBlockComments(
           StripLineComments(
             StripEndFence(StripJsonFence(Trim(input), 1), 1), 1), 1)))

\* ------------------------------------------------------------ validate.ts
\* A schema is a record with the fields of its interface, an optional field
\* being absent when it is undefined: enum is a set of texts, properties a
\* function from keys, required and variants are sequences, value is a value.
\* A path is the sequence of its segments; the fields expected and actual of
\* an error are not kept.
Err(p, code, msg) == <<[path |-> p, code |-> code, message |-> msg]>>

\* typeof d === 'number'
IsNumber(d) == d.t \in {"num", "nan"}

checkEnum(d, s, p) ==
  IF "enum" \in DOMAIN s /\ d.s \notin s.enum
    THEN Err(p, "type_error", <<"Not in enum">>)
    ELSE <<>>

\* d === s.value
StrictEqual(d, v) == d.t # "nan" /\ d.t \notin {"arr", "obj"} /\ d = v

RECURSIVE validateValue(_, _, _), EachItem(_, _, _, _), EachEntry(_, _, _, _),
          AnyVariant(_, _, _, _)
\* d.forEach((v, i) => e.push(...validateValue(v, s.items, p/i))) from i on
EachItem(d, s, p, i) ==
  IF i > Len(d.a) THEN <<>>
  ELSE validateValue(d.a[i], s.items, Append(p, i - 1))
         \o EachItem(d, s, p, i + 1)

validateArray(d, s, p) ==
  IF d.t # "arr" THEN Err(p, "type_error", <<"Expected array">>)
  ELSE (IF "minItems" \in DOMAIN s /\ Len(d.a) < s.minItems
          THEN Err(p, "type_error", <<"Min ", s.minItems, " items">>)
          ELSE <<>>)
    \o (IF "maxItems" \in DOMAIN s /\ Len(d.a) > s.maxItems
          THEN Err(p, "type_error", <<"Max ", s.maxItems, " items">>)
          ELSE <<>>)
    \o EachItem(d, s, p, 1)

\* the loop over the required names, from the i-th on
RECURSIVE EachRequired(_, _, _, _)
EachRequired(d, req, p, i) ==
  IF i > Len(req) THEN <<>>
  ELSE (IF req[i] \notin DOMAIN d.o
          THEN Err(Append(p, req[i]), "missing_required", <<"Missing ", req[i]>>)
          ELSE <<>>)
    \o EachRequired(d, req, p, i + 1)

\* the loop over Object.entries(obj), D being the keys still to visit (the
\* value model does not keep their insertion order)
EachEntry(d, s, p, D) ==
  IF D = {} THEN <<>>
  ELSE LET k == CHOOSE x \in D : TRUE IN
    (IF k \in DOMAIN s.properties
       THEN validateValue(d.o[k], s.properties[k], Append(p, k))
     ELSE IF "additionalProperties" \in DOMAIN s /\ ~s.additionalProperties
       THEN Err(Append(p, k), "type_error", <<"Unknown property ", k>>)
     ELSE <<>>)
    \o EachEntry(d, s, p, D \ {k})

validateObject(d, s, p) ==
  IF d.t # "obj" THEN Err(p, "type_error", <<"Expected object">>)
  ELSE EachRequired(d, IF "required" \in DOMAIN s THEN s.required ELSE <<>>, p, 1)
         \o EachEntry(d, s, p, DOMAIN d.o)

\* the loop over s.variants, from the i-th on
AnyVariant(d, s, p, i) ==
  IF i > Len(s.variants)
    THEN Err(p, "type_error", <<"No union variant matched">>)
  ELSE IF validateValue(d, s.variants[i], p) = <<>> THEN <<>>
  ELSE AnyVariant(d, s, p, i + 1)

validateUnion(d, s, p) == AnyVariant(d, s, p, 1)

validateValue(d, s, p) ==
  CASE s.type = "null" ->
         IF d.t = "null" THEN <<>> ELSE Err(p, "type_error", <<"Expected null">>)
    [] s.type = "string" ->
         IF d.t = "str" THEN checkEnum(d, s, p)
         ELSE Err(p, "type_error", <<"Expected string">>)
    [] s.type = "number" ->
         IF IsNumber(d) THEN <<>>
         ELSE Err(p, "type_error", <<"Expected number">>)
    [] s.type = "boolean" ->
         IF d.t = "bool" THEN <<>>
         ELSE Err(p, "type_error", <<"Expected boolean">>)
    [] s.type = "array" -> validateArray(d, s, p)
    [] s.type = "object" -> validateObject(d, s, p)
    [] s.type = "union" -> validateUnion(d, s, p)
    [] s.type = "literal" ->
         IF StrictEqual(d, s.value) THEN <<>>
         ELSE Err(p, "type_error", <<"Expected ", s.value>>)
    [] OTHER -> <<>>

\* the return statement of validate
Validated(data, errors) ==
  IF errors = <<>> THEN [ok |-> TRUE, data |-> data]
  ELSE [ok |-> FALSE, errors |-> errors]

validate(data, s) == Validated(data, validateValue(data, s, <<>>))

\* --------------------------------------------------------- parse.ts: parse
\* a schema argument that was left out
NoSchema == [type |-> "undefined"]

\* the Failure parse and process return for the validation v
SchemaMismatch(v) ==
  [ok |-> FALSE,
   error |-> [code |-> "schema_mismatch", message |-> <<"Schema mismatch">>,
              context |-> v.errors]]

\* if (!v.ok) return the mismatch, else go on to r
Checked(v, r) == IF ~v.ok THEN SchemaMismatch(v) ELSE r

\* the check without the test of v.ok
Unchecked(d, s, r) == r

\* if (schema) { validate ... }, then r
IfSchema(d, s, r) == IF s # NoSchema THEN Checked(validate(d, s), r) ELSE r

\* the second try of parse: rep is the repair, d what JSON.parse made of it
ParseRepaired(rep, d, s) ==
  IF ~d.threw THEN IfSchema(d.v, s, Success(d.v, rep.warnings))
  ELSE Failure("invalid_json", d.message)

\* the catch block of the first try of parse
RepairAndParse(rep, s) == ParseRepaired(rep, JSONparse(rep.output), s)

\* the first try of parse: d is what JSON.parse made of the extracted text,
\* r what the catch block returns
FirstTry(d, s, r) ==
  IF ~d.threw THEN IfSchema(d.v, s, Success(d.v, <<>>)) ELSE r

\* parse with the repair ahead of the first strict parse
ParseRepairFirst(ex, s) ==
  IF ex.json = Null THEN Failure("no_json_found", <<"No JSON found">>)
  ELSE RepairAndParse(repair(ex.json), s)

\* parse from the extraction ex on
ParseExtracted(ex, s) ==
  IF ex.json = Null THEN Failure("no_json_found", <<"No JSON found">>)
  ELSE FirstTry(JSONparse(ex.json), s, RepairAndParse(repair(ex.json), s))

parse(input, s) ==
  IF input = <<>> THEN Failure("no_json_found", <<"Empty input">>)
  ELSE ParseExtracted(extract(input), s)

\* ------------------------------------------------------------ streaming.ts
\* the options createStreamingParser hands to parsePartial
pOpts ==
  [allowPartialStrings |-> TRUE, allowPartialObjects |-> TRUE,
   allowPartialArrays |-> TRUE, allowPartialNumbers |-> FALSE]

\* the tracking locals of a session that was just created
FreshTracking ==
  [depth |-> 0, inStr |-> FALSE, esc |-> FALSE, started |-> FALSE]

\* the scan of update over the chunk c, from the tracking state st
RECURSIVE update(_, _, _)
update(c, i, st) ==
  IF i > Len(c) THEN st
  ELSE LET ch == c[i] IN
    IF st.esc THEN update(c, i + 1, [st EXCEPT !.esc = FALSE])
    ELSE IF ch = "\\" /\ st.inStr THEN update(c, i + 1, [st EXCEPT !.esc = TRUE])
    ELSE IF ch = "\"" THEN update(c, i + 1, [st EXCEPT !.inStr = ~st.inStr])
    ELSE IF st.inStr THEN update(c, i + 1, st)
    ELSE IF ch \in {"{", "["}
      THEN update(c, i + 1,
             [st EXCEPT !.started = IF st.depth = 0 THEN TRUE ELSE st.started,
                        !.depth = st.depth + 1])
    ELSE IF ch \in {"}", "]"}
      THEN update(c, i + 1, [st EXCEPT !.depth = st.depth - 1])
    ELSE update(c, i + 1, st)

\* if (res.ok && opts.schema) { validate ... } return res
ProcessChecked(res, s) == IF res.ok THEN IfSchema(res.data, s, res) ELSE res

\* process() from the extraction ex on, s being opts.schema
ProcessExtracted(ex, s) ==
  IF ex.json = Null THEN Failure("truncated", <<"No JSON found">>)
  ELSE ProcessChecked(parsePartial(repair(ex.json).output, pOpts), s)

\* process() over the buffer b
process(b, s) == ProcessExtracted(extract(b), s)

\* finish with its two gates in the other order
finishDepthFirst(b, d, str, st, s) ==
  IF d > 0 \/ str THEN Failure("truncated", <<"Incomplete JSON">>)
  ELSE IF ~st THEN Failure("no_json_found", <<"No JSON found">>)
  ELSE process(b, s)

\* finish() in the tracking state of the session
finish(b, d, str, st, s) ==
  IF ~st THEN Failure("no_json_found", <<"No JSON found">>)
  ELSE IF d > 0 \/ str THEN Failure("truncated", <<"Incomplete JSON">>)
  ELSE process(b, s)

\* what a call that returns nothing leaves in ret
Void == [void |-> TRUE]

\* write(c) with the scan of each chunk starting outside an escape
WriteForgetsEsc(k) ==
  /\ pos + k <= Len(src)
  /\ LET c  == SubSeq(src, pos + 1, pos + k)
         st == update(c, 1, [depth |-> depth, inStr |-> inStr, esc |-> FALSE,
                             started |-> started])
     IN /\ buf' = buf \o c
        /\ depth' = st.depth
        /\ inStr' = st.inStr
        /\ esc' = st.esc
        /\ started' = st.started
        /\ ret' = process(buf \o c, schema)
  /\ pos' = pos + k
  /\ charwise' = (charwise /\ k = 1)
  /\ op' = "write"
  /\ UNCHANGED <<src, reused, text, doc, schema>>

\* write(c), c being the next k characters of the chunk source
Write(k) ==
  /\ pos + k <= Len(src)
  /\ LET c  == SubSeq(src, pos + 1, pos + k)
         st == update(c, 1, [depth |-> depth, inStr |-> inStr, esc |-> esc,
                             started |-> started])
     IN /\ buf' = buf \o c
        /\ depth' = st.depth
        /\ inStr' = st.inStr
        /\ esc' = st.esc
        /\ started' = st.started
        /\ ret' = process(buf \o c, schema)
  /\ pos' = pos + k
  /\ charwise' = (charwise /\ k = 1)
  /\ op' = "write"
  /\ UNCHANGED <<src, reused, text, doc, schema>>

\* finish() that hands the buffer over and leaves it empty
FinishConsumes ==
  /\ ret' = finish(buf, depth, inStr, started, schema)
  /\ op' = "finish"
  /\ buf' = <<>>
  /\ UNCHANGED <<depth, inStr, esc, started, src, pos, charwise, reused, text,
               doc, schema>>

Finish ==
  /\ ret' = finish(buf, depth, inStr, started, schema)
  /\ op' = "finish"
  /\ UNCHANGED <<buf, depth, inStr, esc, started, src, pos, charwise, reused, text,
               doc, schema>>

\* reset() without esc = false
ResetKeepsEsc ==
  /\ buf' = <<>>
  /\ depth' = 0
  /\ inStr' = FALSE
  /\ started' = FALSE
  /\ charwise' = TRUE
  /\ reused' = (reused \/ buf # <<>>)
  /\ op' = "reset"
  /\ ret' = Void
  /\ pos' = 0
  /\ UNCHANGED <<esc, src, text, doc, schema>>

\* reset(); the caller then feeds the chunk source from its start again
Reset ==
  /\ buf' = <<>>
  /\ depth' = 0
  /\ inStr' = FALSE
  /\ esc' = FALSE
  /\ started' = FALSE
  /\ charwise' = TRUE
  /\ reused' = (reused \/ buf # <<>>)
  /\ op' = "reset"
  /\ ret' = Void
  /\ pos' = 0
  /\ UNCHANGED <<src, text, doc, schema>>

\* a call of a function of the public surface on the caller's text
Call(name, result) ==
  /\ op' = name
  /\ ret' = result
  /\ UNCHANGED <<buf, depth, inStr, esc, started, src, pos, charwise, reused, text,
               doc, schema>>

\* the accessors buffer, inJson and depth of the session, read together
Getters ==
  Call("get", [buffer |-> buf, inJson |-> started, depth |-> depth])

Extract == Call("extract", extract(text))

ExtractAll == Call("extractAll", extractAll(text))

Repair == Call("repair", repair(text))

\* the quote pass of repair alone
RepairPass == Call("repairPass", repairPass(text))

Parse == Call("parse", parse(text, schema))

ParsePartial(options) == Call("parsePartial", parsePartial(text, options))

\* ------------------------------------------------------- generated inputs
\* every text over the alphabet A of at most n characters
Texts(A, n) == UNION {[1..k -> A] : k \in 0..n}

Scalars == {VNull, VBool(TRUE), VNum(1, 0), VNum(2, 0), VStr(<<"a">>)}

Keys == {<<"a">>, <<"b">>}

Arrs(V, n) == {VArr(a) : a \in Texts(V, n)}

Objs(V, K) == {VObj(o) : o \in UNION {[D -> V] : D \in SUBSET K}}

\* arrays and objects of scalars, and one level of nesting around the
\* smallest of them
Flat == Arrs(Scalars, MaxElems) \cup Objs(Scalars, Keys)

Small == Arrs(Scalars, 1) \cup Objs(Scalars, {<<"a">>})

Bracketed ==
  Flat \cup {VArr(<<v>>) : v \in Small}
       \cup {VObj([k \in {<<"a">>} |-> v]) : v \in Small}

\* the decimal digits of a natural number
RECURSIVE NatText(_)
NatText(n) ==
  LET d == <<"0", "1", "2", "3", "4", "5", "6", "7", "8", "9">>[(n % 10) + 1]
  IN IF n < 10 THEN <<d>> ELSE Append(NatText(n \div 10), d)

\* a string literal: quotes and backslashes escaped
RECURSIVE Quoted(_)
Quoted(s) ==
  IF s = <<>> THEN <<>>
  ELSE (IF s[1] \in {"\"", "\\"} THEN <<"\\", s[1]>> ELSE <<s[1]>>)
         \o Quoted(Tail(s))

\* JSON.stringify(v) for the generated values: integers, plain strings,
\* members in some fixed order
RECURSIVE Stringify(_), Joined(_), Members(_, _)
Stringify(v) ==
  CASE v.t = "null" -> <<"n", "u", "l", "l">>
    [] v.t = "bool" -> IF v.b THEN <<"t", "r", "u", "e">>
                       ELSE <<"f", "a", "l", "s", "e">>
    [] v.t = "num"  -> (IF v.m < 0 THEN <<"-">> ELSE <<>>)
                         \o NatText((IF v.m < 0 THEN 0 - v.m ELSE v.m) * Pow10(v.e))
    [] v.t = "str"  -> <<"\"">> \o Quoted(v.s) \o <<"\"">>
    [] v.t = "arr"  -> <<"[">> \o Joined(v.a) \o <<"]">>
    [] v.t = "obj"  -> <<"{">> \o Members(v.o, DOMAIN v.o) \o <<"}">>

Joined(a) ==
  IF a = <<>> THEN <<>>
  ELSE Stringify(a[1]) \o (IF Len(a) > 1 THEN <<",">> \o Joined(Tail(a)) ELSE <<>>)

Members(o, D) ==
  IF D = {} THEN <<>>
  ELSE LET k == CHOOSE x \in D : TRUE IN
       <<"\"">> \o Quoted(k) \o <<"\"", ":">> \o Stringify(o[k])
         \o (IF D = {k} THEN <<>> ELSE <<",">> \o Members(o, D \ {k}))

Serialized == {Stringify(v) : v \in Scalars \cup Bracketed}

\* the characters the session's scan tells apart, and one it does not
SessionAlphabet == {"{", "}", "\"", "\\", "1"}

\* texts a chunk source delivers
Sources ==
  Texts(SessionAlphabet, MaxLen) \cup Serialized
    \cup { <<"{", "\"", "a", "\"", ":", " ", "1", "}">>,
           <<Tick, Tick, Tick, "j", "s", "o", "n", "\n", "[", "1", "]", "\n",
             Tick, Tick, Tick>> }

\* ------------------------------------------------ the streaming session
\* a text that was not composed around a value
NoDoc == [pre |-> <<>>, val |-> <<>>, post |-> <<>>, fence |-> "none"]

\* the session right after createStreamingParser()
Fresh ==
  /\ buf = <<>>
  /\ depth = 0
  /\ inStr = FALSE
  /\ esc = FALSE
  /\ started = FALSE
  /\ pos = 0
  /\ charwise = TRUE
  /\ reused = FALSE
  /\ op = "new"
  /\ ret = Void

Init ==
  /\ Fresh
  /\ schema = NoSchema
  /\ src \in Sources
  /\ text = <<>>
  /\ doc = NoDoc

Next ==
  \/ \E k \in 0..MaxChunk : Write(k)
  \/ Finish
  \/ Reset
  \/ Getters

Spec == Init /\ [][Next]_vars

\* C8: when started is false (the depth never went from 0 to 1), finish
\* returns a Failure with code no_json_found, whatever the buffer holds.
C8_NotStartedNoJsonFound ==
  (op = "finish" /\ ~started) =>
    (~ret.ok /\ ret.error.code = "no_json_found")

\* finish was called on a session that holds text, an opening bracket
\* among it, and has not started
C8_Witness ==
  /\ op = "finish"
  /\ ~started
  /\ \E i \in 1..Len(buf) : buf[i] = "{"
  /\ ret.error.code = "no_json_found"

\* C1: after the full serialization of a JSON array or object was written
\* one character at a time to a fresh session, finish yields a Success whose
\* data equals the data of parse on the whole text.
C1_CharwiseFinishEqualsParse ==
  (/\ op = "finish"
   /\ charwise
   /\ buf = src
   /\ src \in {Stringify(v) : v \in Bracketed}) =>
    (/\ ret.ok
     /\ parse(src, schema).ok
     /\ ret.data = parse(src, schema).data)

\* C7: finish returns Failure truncated whenever the session has started and
\* its depth is not 0 or it is inside a string.
C7_FinishDemandsClosure ==
  (op = "finish" /\ started /\ (depth # 0 \/ inStr)) =>
    (~ret.ok /\ ret.error.code = "truncated")

\* C9: while the value in the buffer is still unclosed, write returns ok=true
\* with the data parsed so far.
C9_WritePreviewsUnclosed ==
  (op = "write" /\ started /\ depth > 0 /\ extract(buf).json = Null) => ret.ok

\* finish() in the tracking state st over the buffer b
FinishIn(b, st, s) == finish(b, st.depth, st.inStr, st.started, s)

\* what a newly created session holds and returns once the chunks written
\* to it add up to b
LikeNew(b) ==
  /\ [depth |-> depth, inStr |-> inStr, esc |-> esc, started |-> started]
       = update(b, 1, FreshTracking)
  /\ op = "write" => ret = process(b, schema)
  /\ op = "finish" => ret = FinishIn(b, update(b, 1, FreshTracking), schema)

\* C14: reset returns the session to idle from any state: afterwards the
\* buffer is empty, depth is 0, started is false and no string or escape is
\* pending, and every later sequence of write and finish calls returns what
\* the same sequence returns on a newly created session.
C14_ResetIsNew ==
  /\ op = "reset" => (buf = <<>> /\ depth = 0 /\ ~started /\ ~inStr /\ ~esc)
  /\ LikeNew(buf)

\* a session that was reset after it was written to was written to again
\* and finished with a value
C14_Witness ==
  /\ reused
  /\ op = "finish"
  /\ started
  /\ ret.ok

\* the tracking locals of the session
Tracking ==
  [depth |-> depth, inStr |-> inStr, esc |-> esc, started |-> started]

\* C21: after any sequence of write calls with any chunk boundaries, empty
\* chunks and chunks that split an escape sequence among them, the buffer
\* is the concatenation of the chunks, and depth, in-string flag,
\* pending-escape flag and started flag are what one left-to-right scan of
\* the whole buffer from position 0 yields; so what write and finish return
\* depends on the concatenated text only, not on how it was split.
C21_SplitIndependent ==
  /\ buf = SubSeq(src, 1, pos)
  /\ Tracking = update(buf, 1, FreshTracking)
  /\ op = "write" => ret = ProcessExtracted(extract(buf), schema)
  /\ op = "finish" =>
       ret = finish(buf, update(buf, 1, FreshTracking).depth,
                    update(buf, 1, FreshTracking).inStr,
                    update(buf, 1, FreshTracking).started, schema)

\* the buffer was written one character at a time, an escaped quote inside
\* a string among them, and the string is still open
C21_Witness ==
  /\ op = "write"
  /\ charwise
  /\ inStr
  /\ \E i \in 2..(Len(buf) - 1) : buf[i] = "\\" /\ buf[i + 1] = "\""
  /\ buf[1] = "\""

\* the step leaves buffer and tracking locals as they were
SessionKept ==
  /\ buf' = buf
  /\ depth' = depth
  /\ inStr' = inStr
  /\ esc' = esc
  /\ started' = started

\* a step of finish or of the accessors keeps the session; finish after
\* finish returns the same again; the accessors return what the session holds
ReadOnlyStep ==
  /\ op' \in {"finish", "get"} => SessionKept
  /\ (op = "finish" /\ op' = "finish") => ret' = ret
  /\ op' = "get" =>
       (ret'.buffer = buf /\ ret'.inJson = started /\ ret'.depth = depth)

\* C26: finish and the read-only accessors buffer, inJson and depth leave
\* the session state unchanged: after any number of finish calls the buffer,
\* depth, in-string, escape and started values are the same as before,
\* repeated finish calls return equal outcomes, and a later write continues
\* from the same state.
C26_FinishReadsOnly == [][ReadOnlyStep]_vars

\* finish was called in the middle of an escape sequence, with more of the
\* source still to be written
C26_Witness ==
  /\ op = "finish"
  /\ esc
  /\ started
  /\ pos < Len(src)

\* finish right after a write that returned Success returns that Success
FinishKeepsPreview ==
  (op = "write" /\ ret.ok /\ op' = "finish") => ret' = ret

\* C30: after any sequence of writes, if the last write returned Success
\* then a finish called immediately afterwards returns the same Success; a
\* preview is never ok while the final result is a failure.
C30_PreviewIsFinal == [][FinishKeepsPreview]_vars

\* ------------------------------------------------ the whole public surface
\* the option objects a caller hands to parsePartial
AllPartial ==
  [allowPartialStrings |-> TRUE, allowPartialObjects |-> TRUE,
   allowPartialArrays |-> TRUE, allowPartialNumbers |-> TRUE]

NoPartial ==
  [allowPartialStrings |-> FALSE, allowPartialObjects |-> FALSE,
   allowPartialArrays |-> FALSE, allowPartialNumbers |-> FALSE]

OptionSets == {NoOptions, AllPartial, NoPartial}

AllAlphabet == {"{", "}", "\"", ":"}

AllSources ==
  Texts(AllAlphabet, MaxLen)
    \cup { <<"[", "1", ",", "2", "]">>, <<"[", "1", ",">>,
           <<"[", "'", "a", "'", ",", "1", "]">>,
           <<"{", "\"", "a", "\"", ":", "[", "}">> }

\* the caller holds one text: either the chunk source it streams through the
\* session or the argument it hands to the functions; every operation can be
\* called in both cases
InitAll ==
  /\ Fresh
  /\ schema = NoSchema
  /\ doc = NoDoc
  /\ \E s \in AllSources :
       \/ src = s /\ text = <<>>
       \/ src = <<>> /\ text = s

NextAll ==
  \/ \E k \in 0..MaxChunk : Write(k)
  \/ Finish
  \/ Reset
  \/ Extract
  \/ ExtractAll
  \/ Repair
  \/ Parse
  \/ \E o \in OptionSets : ParsePartial(o)

SpecAll == InitAll /\ [][NextAll]_vars

ErrorCodes ==
  {"no_json_found", "invalid_json", "schema_mismatch", "truncated",
   "type_error", "missing_required"}

\* r has the shape of Result<T>
IsResult(r) ==
  /\ "ok" \in DOMAIN r
  /\ r.ok => "data" \in DOMAIN r
  /\ ~r.ok => ("error" \in DOMAIN r /\ r.error.code \in ErrorCodes)

InOrder(r, d, rep, d2) ==
  IF ~d.threw THEN r = Success(d.v, <<>>)
  ELSE IF ~d2.threw THEN r = Success(d2.v, rep.warnings)
  ELSE ~r.ok /\ r.error.code = "invalid_json"

\* the same from the candidate on
InOrderFrom(r, json, rep) ==
  InOrder(r, JSONparse(json), rep, JSONparse(rep.output))

\* the same from the extraction on
Ordered(r, t, ex) ==
  /\ (~r.ok /\ r.error.code = "no_json_found") <=> (t = <<>> \/ ex.json = Null)
  /\ (t # <<>> /\ ex.json # Null) => InOrderFrom(r, ex.json, repair(ex.json))

\* C12: parse follows the order extract, strict parse, repair, strict parse:
\* no_json_found exactly when the input is empty or extract finds no
\* candidate; Success with the value and no warnings when the candidate
\* strictly parses; otherwise Success with the strict parse of repair's
\* output and repair's warnings, or invalid_json when that parse fails too.
C12_ParseOrder == op = "parse" => Ordered(ret, text, extract(text))

\* parse succeeded on the repaired candidate and handed on a warning
C12_Witness ==
  /\ op = "parse"
  /\ JSONparse(extract(text).json).threw
  /\ ret.ok
  /\ ret.warnings # <<>>

\* ------------------------------------------- a value embedded in prose
ProseAlphabet == {"a", " ", "\""}

ProseValues == {Stringify(v) : v \in Small \cup {VArr(<<x>>) : x \in Small}}

\* the value text v inside a markdown fence of kind f
Fenced(f, v) ==
  CASE f = "json" -> Fence \o <<"j", "s", "o", "n", "\n">> \o v \o <<"\n">> \o Fence
    [] f = "bare" -> Fence \o <<"\n">> \o v \o <<"\n">> \o Fence
    [] OTHER -> v

\* The prose holds no opening bracket, so the embedded value is the one
\* bracketed JSON value of the text.
InitProse ==
  /\ Fresh
  /\ schema = NoSchema
  /\ src = <<>>
  /\ \E v \in ProseValues, a \in Texts(ProseAlphabet, MaxProse),
        b \in Texts(ProseAlphabet, MaxProse), f \in {"none", "json", "bare"} :
       /\ doc = [pre |-> a, val |-> v, post |-> b, fence |-> f]
       /\ text = a \o Fenced(f, v) \o b

NextProse == Extract \/ Parse

SpecProse == InitProse /\ [][NextProse]_vars

\* extract returned the embedded value verbatim, parse returned it parsed
FoundEmbedded ==
  /\ op = "extract" => ret.json = doc.val
  /\ op = "parse" => (ret.ok /\ ret.data = JSONparse(doc.val).v)

\* C2 as claimed: for every text that holds one valid bracketed JSON value
\* amid arbitrary prose or inside a markdown fence, extract returns the value
\* verbatim and parse returns Success with it.
C2_AnyProse == FoundEmbedded

\* t holds no bracket, no double quote and no grave accent
PlainProse(t) ==
  \A i \in 1..Len(t) : t[i] \notin {"{", "}", "[", "]", "\"", Tick}

\* C2 amended: the same, for prose that holds no bracket, no double quote
\* and no grave accent.
C2_PlainProse ==
  (PlainProse(doc.pre) /\ PlainProse(doc.post)) => FoundEmbedded

\* parse succeeded on a fenced value with plain prose on both sides
C2_Witness ==
  /\ op = "parse"
  /\ doc.fence = "json"
  /\ doc.pre # <<>> /\ PlainProse(doc.pre)
  /\ doc.post # <<>> /\ PlainProse(doc.post)
  /\ ret.ok
  /\ ret.data = JSONparse(doc.val).v

\* ------------------------------------------------------- repair on texts
RepairAlphabet == {"[", "]", "\"", ",", "'", "1"}

RepairSamples ==
  { <<"[", "\"", ",", ",", ",", "\"", "]">>,
    <<"{", "\"", "a", "\"", ":", " ", "\"", "x", ",", ",", "y", "\"", "}">>,
    <<"{", "n", "a", "m", "e", ":", " ", "\"", "J", "\"", ",", "}">> }

InitRepair ==
  /\ Fresh
  /\ schema = NoSchema
  /\ src = <<>>
  /\ text \in Texts(RepairAlphabet, MaxLen) \cup RepairSamples
  /\ doc = NoDoc

NextRepair == Repair

SpecRepair == InitRepair /\ [][NextRepair]_vars

\* C4: repair is idempotent on its own output: when repair(s).valid is true,
\* repair(repair(s).output).output equals repair(s).output.
C4_RepairIdempotent ==
  (op = "repair" /\ ret.valid) => repair(ret.output).output = ret.output

\* The contents of the complete double-quoted strings of s, a string being
\* opened by a quote of either kind outside a string and closed by the next
\* unescaped quote of the same kind.
RECURSIVE DQScan(_, _, _, _, _, _)
DQScan(s, i, q, e, from, acc) ==
  IF i > Len(s) THEN acc
  ELSE IF e THEN DQScan(s, i + 1, q, FALSE, from, acc)
  ELSE IF s[i] = "\\" /\ q # "" THEN DQScan(s, i + 1, q, TRUE, from, acc)
  ELSE IF s[i] \in {"\"", "'"} /\ q = ""
    THEN DQScan(s, i + 1, s[i], FALSE, i + 1, acc)
  ELSE IF s[i] = q
    THEN DQScan(s, i + 1, "", FALSE, from,
                IF q = "\"" THEN acc \cup {SubSeq(s, from, i - 1)} ELSE acc)
  ELSE DQScan(s, i + 1, q, FALSE, from, acc)

DQContents(s) == DQScan(s, 1, "", FALSE, 1, {})

\* C10: the content of every string that is already delimited by double
\* quotes appears unchanged in repair's output.
C10_DoubleQuotedKept ==
  op = "repair" => DQContents(text) \subseteq DQContents(ret.output)

\* ------------------------------------------- single-quoted JSON-like text
\* s with every quote character a replaced by b
Requote(s, a, b) == [i \in 1..Len(s) |-> IF s[i] = a THEN b ELSE s[i]]

\* text is a value written with single-quote delimiters, doc.val the same
\* text with the delimiters replaced by double quotes
InitQuote ==
  /\ Fresh
  /\ schema = NoSchema
  /\ src = <<>>
  /\ \E v \in {x \in Bracketed : \E i \in 1..Len(Stringify(x)) : Stringify(x)[i] = "\""} :
       /\ text = Requote(Stringify(v), "\"", "'")
       /\ doc = [NoDoc EXCEPT !.val = Stringify(v)]

NextQuote == Repair

SpecQuote == InitQuote /\ [][NextQuote]_vars

\* C5: for a JSON-like text whose strings are delimited by single quotes,
\* strict-parsing repair's output yields the value of strict-parsing the
\* text with the delimiters replaced by double quotes.
C5_SingleQuotesSameValue ==
  op = "repair" =>
    (/\ ~JSONparse(ret.output).threw
     /\ ~JSONparse(doc.val).threw
     /\ JSONparse(ret.output).v = JSONparse(doc.val).v)

\* --------------------------------------- prefixes cut at a token boundary
\* the lengths of the prefixes of the valid JSON text s that end right after
\* a complete string, number, literal, comma, colon or bracket
RECURSIVE TokenCuts(_, _)
TokenCuts(s, i) ==
  IF i > Len(s) THEN {}
  ELSE IF IsWs(s[i]) THEN TokenCuts(s, i + 1)
  ELSE LET n == IF s[i] = "\"" THEN StrictChars(s, i + 1, <<>>).i
                ELSE IF s[i] = "-" \/ IsDigit(s[i]) THEN StrictNumber(s, i).i
                ELSE IF s[i] \in {"t", "n"} THEN i + 4
                ELSE IF s[i] = "f" THEN i + 5
                ELSE i + 1
       IN {n - 1} \cup TokenCuts(s, n)

InitPrefix ==
  /\ Fresh
  /\ schema = NoSchema
  /\ src = <<>>
  /\ \E v \in Scalars \cup Bracketed :
       \E n \in TokenCuts(Stringify(v), 1) :
         /\ text = SubSeq(Stringify(v), 1, n)
         /\ doc = [NoDoc EXCEPT !.val = Stringify(v)]

NextPrefix == ParsePartial(AllPartial)

SpecPrefix == InitPrefix /\ [][NextPrefix]_vars

\* C6: with all partial-allow flags enabled, parsePartial returns Success
\* for every prefix of a strictly valid JSON text cut at a token boundary.
C6_TokenBoundaryPrefixOk == op = "parsePartial" => ret.ok

\* ------------------------------------------- texts that end inside a value
\* a text t that ends inside a value, the data d read up to its end and the
\* kinds k of the values that are still open there
Cut(t, d, k) == [t |-> t, d |-> d, k |-> k]

\* the key k as it stands in a text
KeyText(k) == <<"\"">> \o Quoted(k) \o <<"\"">>

\* Every way to end Stringify(v) inside v, for a string, an array or an
\* object v: inside a string, or at a token boundary inside an array or an
\* object.  CutElems and CutMembers start where an element or a member may
\* start, done holding what was read completely before.
RECURSIVE CutsOf(_), CutElems(_, _), CutMembers(_, _, _)
CutsOf(v) ==
  CASE v.t = "str" ->
         {Cut(<<"\"">> \o Quoted(SubSeq(v.s, 1, n)), VStr(SubSeq(v.s, 1, n)),
              {"str"}) : n \in 0..Len(v.s)}
    [] v.t = "arr" ->
         {Cut(<<"[">> \o c.t, VArr(c.d), c.k \cup {"arr"}) :
            c \in CutElems(v.a, <<>>)}
    [] v.t = "obj" ->
         {Cut(<<"{">> \o c.t, VObj(c.d), c.k \cup {"obj"}) :
            c \in CutMembers(v.o, DOMAIN v.o, EmptyObj)}
    [] OTHER -> {}

CutElems(a, done) ==
  IF a = <<>> THEN {Cut(<<>>, done, {})}
  ELSE {Cut(<<>>, done, {}), Cut(Stringify(a[1]), Append(done, a[1]), {})}
    \cup {Cut(c.t, Append(done, c.d), c.k) : c \in CutsOf(a[1])}
    \cup (IF Len(a) = 1 THEN {}
          ELSE {Cut(Stringify(a[1]) \o <<",">> \o c.t, c.d, c.k) :
                  c \in CutElems(Tail(a), Append(done, a[1]))})

CutMembers(o, D, done) ==
  IF D = {} THEN {Cut(<<>>, done, {})}
  ELSE LET k == CHOOSE x \in D : TRUE
           m == KeyText(k) \o <<":">>
       IN {Cut(<<>>, done, {}), Cut(KeyText(k), done, {}), Cut(m, done, {}),
           Cut(m \o Stringify(o[k]), Put(done, k, o[k]), {})}
         \cup {Cut(<<"\"">> \o Quoted(SubSeq(k, 1, n)), done, {"str"}) :
                 n \in 0..Len(k)}
         \cup {Cut(m \o c.t, Put(done, k, c.d), c.k) : c \in CutsOf(o[k])}
         \cup (IF D = {k} THEN {}
               ELSE {Cut(m \o Stringify(o[k]) \o <<",">> \o c.t, c.d, c.k) :
                       c \in CutMembers(o, D \ {k}, Put(done, k, o[k]))})

\* '{"users": [{"name": "Al' and what was read of it
UsersCut ==
  Cut(<<"{", "\"", "u", "s", "e", "r", "s", "\"", ":", " ", "[", "{", "\"",
        "n", "a", "m", "e", "\"", ":", " ", "\"", "A", "l">>,
      VObj([k \in {<<"u", "s", "e", "r", "s">>} |->
              VArr(<<VObj([n \in {<<"n", "a", "m", "e">>} |->
                             VStr(<<"A", "l">>)])>>)]),
      {"str", "arr", "obj"})

AllCuts == UNION {CutsOf(v) : v \in Bracketed} \cup {UsersCut}

InitCut ==
  /\ Fresh
  /\ schema = NoSchema
  /\ src = <<>>
  /\ \E c \in AllCuts :
       /\ text = c.t
       /\ doc = [pre |-> <<>>, val |-> c.t, post |-> <<>>, fence |-> "none",
                 data |-> c.d, open |-> c.k]

NextCut == ParsePartial(NoOptions)

SpecCut == InitCut /\ [][NextCut]_vars

\* C11: with default options, parsePartial on an input that ends inside a
\* string value, an array or an object, at any nesting depth, returns Success
\* whose data holds every member and element read completely plus the
\* characters accumulated for the unterminated string.
C11_PartialKeepsRead ==
  op = "parsePartial" => (ret.ok /\ ret.data = doc.data)

\* ------------------------------------------------- a caller with a schema
NumberSchema == [type |-> "number"]

\* one schema of every kind, with and without the optional fields
Schemas ==
  { NumberSchema,
    [type |-> "array", items |-> NumberSchema, maxItems |-> 1],
    [type |-> "array", minItems |-> 1,
     items |-> [type |-> "union",
                variants |-> <<[type |-> "null"],
                               [type |-> "literal", value |-> VNum(1, 0)]>>]],
    [type |-> "object",
     properties |-> [k \in {<<"a">>} |-> [type |-> "string", enum |-> {<<"a">>}]],
     required |-> << <<"a">> >>, additionalProperties |-> FALSE],
    [type |-> "object",
     properties |-> [k \in {<<"a">>} |-> [type |-> "boolean"]]] }

\* serialized values and a text that only parses once repaired
SchemaTexts ==
  {Stringify(v) : v \in Bracketed}
    \cup { <<"{", "a", ":", " ", "\"", "a", "\"", ",", "}">> }

InitSchema ==
  /\ Fresh
  /\ schema \in Schemas
  /\ src \in SchemaTexts
  /\ text = src
  /\ doc = NoDoc

NextSchema ==
  \/ \E k \in 0..MaxChunk : Write(k)
  \/ Finish
  \/ Reset
  \/ Parse

SpecSchema == InitSchema /\ [][NextSchema]_vars

\* r is what the call returns with the schema s, plain what it returns
\* without one
SchemaGate(r, plain, s) ==
  /\ r.ok => validate(r.data, s).ok
  /\ (plain.ok /\ ~validate(plain.data, s).ok) =>
       (~r.ok /\ r.error.code = "schema_mismatch")

\* C13: when a schema is supplied, parse, write and finish return Success
\* only if validate(data, schema) reports no errors, and Failure with code
\* schema_mismatch when the value parses but validate reports errors.
C13_SchemaGate ==
  schema # NoSchema =>
    /\ op = "parse" => SchemaGate(ret, parse(text, NoSchema), schema)
    /\ op = "write" => SchemaGate(ret, process(buf, NoSchema), schema)
    /\ op = "finish" =>
         SchemaGate(ret, finish(buf, depth, inStr, started, NoSchema), schema)

\* finish parsed the closed value and the schema turned it down
C13_Witness ==
  /\ op = "finish"
  /\ schema # NoSchema
  /\ finish(buf, depth, inStr, started, NoSchema).ok
  /\ ~ret.ok
  /\ ret.error.code = "schema_mismatch"

\* --------------------------------------------------- objects with bare keys
\* identifiers that are not reserved literals
BareKeys == {<<"a">>, <<"b", "1">>, <<"$", "_">>}

\* objects with bare keys over scalars, and one level of nesting
KeyedValues ==
  Objs(Scalars, BareKeys)
    \cup {VObj([k \in {<<"a">>} |-> v]) :
            v \in Objs(Scalars, {<<"b", "1">>}) \cup Arrs(Scalars, 1)}

\* v written with q around every key and sp after '{', ':' and ','
RECURSIVE Keyed(_, _, _), KeyedMembers(_, _, _, _)
Keyed(v, q, sp) ==
  IF v.t = "obj"
    THEN <<"{">> \o sp \o KeyedMembers(v.o, DOMAIN v.o, q, sp) \o <<"}">>
  ELSE Stringify(v)

KeyedMembers(o, D, q, sp) ==
  IF D = {} THEN <<>>
  ELSE LET k == CHOOSE x \in D : TRUE IN
       q \o k \o q \o <<":">> \o sp \o Keyed(o[k], q, sp)
         \o (IF D = {k} THEN <<>>
             ELSE <<",">> \o sp \o KeyedMembers(o, D \ {k}, q, sp))

\* the keys of v, at every depth
RECURSIVE NumKeys(_), NumKeysIn(_, _)
NumKeys(v) == IF v.t = "obj" THEN NumKeysIn(v.o, DOMAIN v.o) ELSE 0

NumKeysIn(o, D) ==
  IF D = {} THEN 0
  ELSE LET k == CHOOSE x \in D : TRUE IN 1 + NumKeys(o[k]) + NumKeysIn(o, D \ {k})

\* '{name: "John", age: 30,}' and what the claim says of it
JohnBare ==
  <<"{", "n", "a", "m", "e", ":", " ", "\"", "J", "o", "h", "n", "\"", ",", " ",
    "a", "g", "e", ":", " ", "3", "0", ",", "}">>

JohnQuoted ==
  <<"{", "\"", "n", "a", "m", "e", "\"", ":", " ", "\"", "J", "o", "h", "n",
    "\"", ",", " ", "\"", "a", "g", "e", "\"", ":", " ", "3", "0", "}">>

InitKeys ==
  /\ Fresh
  /\ schema = NoSchema
  /\ src = <<>>
  /\ \/ \E v \in KeyedValues : \E sp \in {<<>>, <<" ">>} :
          /\ text = Keyed(v, <<>>, sp)
          /\ doc = [pre |-> <<>>, val |-> Keyed(v, <<"\"">>, sp), post |-> <<>>,
                    fence |-> "none", keys |-> NumKeys(v)]
     \/ /\ text = JohnBare
        /\ doc = [pre |-> <<>>, val |-> JohnQuoted, post |-> <<>>,
                  fence |-> "none", keys |-> 2]

NextKeys == Repair

SpecKeys == InitKeys /\ [][NextKeys]_vars

\* the warnings of w with the code c
RECURSIVE CountCode(_, _)
CountCode(w, c) ==
  IF w = <<>> THEN 0
  ELSE (IF w[1].code = c THEN 1 ELSE 0) + CountCode(Tail(w), c)

\* C15: outside any string, right after '{' or ',' and any white space,
\* repair wraps a bare identifier that is not a reserved literal in double
\* quotes and adds one unquoted_key_fixed warning per wrapped key; for
\* '{name: "John", age: 30,}' the output is '{"name": "John", "age": 30}'
\* with valid = true.
C15_BareKeysQuoted ==
  op = "repair" =>
    /\ ret.output = doc.val
    /\ ret.valid
    /\ CountCode(ret.warnings, "unquoted_key_fixed") = doc.keys

\* repair wrapped the three keys of an object
C15_Witness ==
  /\ op = "repair"
  /\ doc.keys = 3
  /\ ret.output = doc.val
  /\ CountCode(ret.warnings, "unquoted_key_fixed") = 3

\* ------------------------------------------------- Python literals in JSON
\* arrays and objects of literals and strings, and an array in an object
PyValues ==
  LET V == {VNull, VBool(TRUE), VBool(FALSE), VStr(<<"a">>)} IN
  Arrs(V, MaxElems) \cup Objs(V, Keys)
    \cup {VObj([k \in {<<"a">>} |-> v]) : v \in Arrs(V, MaxElems)}

\* v written with sp after ':' and ',', and with None, True and False for
\* null, true and false when py is set
RECURSIVE Written(_, _, _), WrittenElems(_, _, _), WrittenMembers(_, _, _, _)
Written(v, py, sp) ==
  CASE v.t = "null" /\ py -> <<"N", "o", "n", "e">>
    [] v.t = "bool" /\ py -> IF v.b THEN <<"T", "r", "u", "e">>
                             ELSE <<"F", "a", "l", "s", "e">>
    [] v.t = "arr" -> <<"[">> \o WrittenElems(v.a, py, sp) \o <<"]">>
    [] v.t = "obj" -> <<"{">> \o WrittenMembers(v.o, DOMAIN v.o, py, sp) \o <<"}">>
    [] OTHER -> Stringify(v)

WrittenElems(a, py, sp) ==
  IF a = <<>> THEN <<>>
  ELSE Written(a[1], py, sp)
         \o (IF Len(a) = 1 THEN <<>>
             ELSE <<",">> \o sp \o WrittenElems(Tail(a), py, sp))

WrittenMembers(o, D, py, sp) ==
  IF D = {} THEN <<>>
  ELSE LET k == CHOOSE x \in D : TRUE IN
       KeyText(k) \o <<":">> \o sp \o Written(o[k], py, sp)
         \o (IF D = {k} THEN <<>>
             ELSE <<",">> \o sp \o WrittenMembers(o, D \ {k}, py, sp))

\* the literals null, true and false of v, at every depth
RECURSIVE NumLiterals(_), NumLiteralsIn(_, _)
NumLiterals(v) ==
  CASE v.t \in {"null", "bool"} -> 1
    [] v.t = "arr" ->
         IF v.a = <<>> THEN 0
         ELSE NumLiterals(v.a[1]) + NumLiterals(VArr(Tail(v.a)))
    [] v.t = "obj" -> NumLiteralsIn(v.o, DOMAIN v.o)
    [] OTHER -> 0

NumLiteralsIn(o, D) ==
  IF D = {} THEN 0
  ELSE LET k == CHOOSE x \in D : TRUE IN
       NumLiterals(o[k]) + NumLiteralsIn(o, D \ {k})

InitPython ==
  /\ Fresh
  /\ schema = NoSchema
  /\ src = <<>>
  /\ \E v \in PyValues : \E sp \in {<<>>, <<" ">>} :
       /\ text = Written(v, TRUE, sp)
       /\ doc = [pre |-> <<>>, val |-> Written(v, FALSE, sp), post |-> <<>>,
                 fence |-> "none", literals |-> NumLiterals(v)]

NextPython == Repair

SpecPython == InitPython /\ [][NextPython]_vars

\* C16: every occurrence of bare None, True or False outside strings is
\* replaced by null, true or false in repair's output, and each occurrence
\* adds one python_literal_converted warning, wherever the literal stands
\* (after ':', after '[' or after ',').
C16_PythonLiteralsConverted ==
  op = "repair" =>
    /\ ret.output = doc.val
    /\ CountCode(ret.warnings, "python_literal_converted") = doc.literals

\* ------------------------------------------------- single-quoted strings
\* what may stand inside a single-quoted string, and what the quote pass is
\* to emit for it
Pieces ==
  { [in |-> <<"a">>, out |-> <<"a">>],
    [in |-> <<"\\", "'">>, out |-> <<"'">>],
    [in |-> <<"\"">>, out |-> <<"\\", "\"">>],
    [in |-> <<"\\", "\"">>, out |-> <<"\\", "\"">>] }

\* the texts of the pieces of ps, one after the other
RECURSIVE PiecesIn(_), PiecesOut(_)
PiecesIn(ps) == IF ps = <<>> THEN <<>> ELSE ps[1].in \o PiecesIn(Tail(ps))

PiecesOut(ps) == IF ps = <<>> THEN <<>> ELSE ps[1].out \o PiecesOut(Tail(ps))

\* where the string stands: alone, in an array, after a comma, as a member
Contexts ==
  { [pre |-> <<>>, post |-> <<>>],
    [pre |-> <<"[">>, post |-> <<"]">>],
    [pre |-> <<"[", "\"", "b", "\"", ",", " ">>, post |-> <<"]">>],
    [pre |-> <<"{", "\"", "a", "\"", ":">>, post |-> <<"}">>],
    [pre |-> <<"{">>, post |-> <<":", "1", "}">>] }

InitSingle ==
  /\ Fresh
  /\ schema = NoSchema
  /\ src = <<>>
  /\ \E ps \in Texts(Pieces, MaxLen) : \E c \in Contexts :
       /\ text = c.pre \o <<"'">> \o PiecesIn(ps) \o <<"'">> \o c.post
       /\ doc = [pre |-> c.pre, val |-> <<"\"">> \o PiecesOut(ps) \o <<"\"">>,
                 post |-> c.post, fence |-> "none"]

NextSingle == RepairPass

SpecSingle == InitSingle /\ [][NextSingle]_vars

\* C17: in repair's quote pass a string delimited by single quotes is
\* emitted with double-quote delimiters, an escaped single quote inside it
\* as a bare single quote, and a double quote inside it, escaped or not, as
\* a backslash and a double quote.
C17_SingleQuotedRewritten ==
  op = "repairPass" => ret.r = doc.pre \o doc.val \o doc.post

\* the pass rewrote a single-quoted member value that holds an escaped single
\* quote and an escaped double quote
C17_Witness ==
  /\ op = "repairPass"
  /\ doc.pre = <<"{", "\"", "a", "\"", ":">>
  /\ \E i \in 1..Len(text) - 1 : text[i] = "\\" /\ text[i + 1] = "'"
  /\ \E i \in 1..Len(text) - 1 : text[i] = "\\" /\ text[i + 1] = "\""
  /\ ret.r = doc.pre \o doc.val \o doc.post

\* ------------------------------------------- the allow flags of parsePartial
\* the flag that lets a value of each kind end with the input
FlagOf ==
  [k \in {"str", "arr", "obj"} |->
     CASE k = "str" -> "allowPartialStrings"
       [] k = "arr" -> "allowPartialArrays"
       [] k = "obj" -> "allowPartialObjects"]

\* option objects that set some of the three flags to false, and one that
\* sets all four flags
FlagSets ==
  {[f \in {FlagOf[k] : k \in K} |-> FALSE] : K \in SUBSET {"str", "arr", "obj"}}
    \cup {AllPartial}

\* texts that end inside one value, of each kind
DefaultProbes ==
  { <<"\"", "a">>, <<"[", "1">>, <<"{", "\"", "a", "\"", ":", "1">> }

InitFlags ==
  /\ Fresh
  /\ schema = NoSchema
  /\ src = <<>>
  /\ \E c \in AllCuts \cup CutsOf(VStr(<<"a">>)) : \E o \in FlagSets :
       /\ text = c.t
       /\ doc = [pre |-> <<>>, val |-> c.t, post |-> <<>>, fence |-> "none",
                 data |-> c.d, open |-> c.k, options |-> o]

NextFlags == ParsePartial(doc.options)

SpecFlags == InitFlags /\ [][NextFlags]_vars

\* the caller set the flag of the kind k to false
FlagOff(k) == FlagOf[k] \in DOMAIN doc.options /\ ~doc.options[FlagOf[k]]

\* C18: the allow flags for strings, objects and arrays default to true (the
\* one for numbers to false, which no result shows); when the input ends
\* inside a string, array or object whose flag is false, parsePartial returns
\* Failure with code truncated together with a partial snapshot, never
\* Success.
C18_FlagsGatePartial ==
  op = "parsePartial" =>
    /\ (\E k \in doc.open : FlagOff(k)) =>
         (~ret.ok /\ ret.error.code = "truncated" /\ "partial" \in DOMAIN ret)
    /\ (doc.options = NoOptions /\ text \in DefaultProbes) => ret.ok

\* the input ends inside a string in an array in an object, only the flag
\* for arrays is false, and parsePartial returned the Failure
C18_Witness ==
  /\ op = "parsePartial"
  /\ doc.open = {"str", "arr", "obj"}
  /\ DOMAIN doc.options = {"allowPartialArrays"}
  /\ ~ret.ok
  /\ "partial" \in DOMAIN ret

\* ------------------------------------------------ the offsets of extract
\* the text of the document once its fence is gone and its ends are trimmed
Stripped == Trim(doc.pre \o doc.val \o doc.post)

ChunkSources == {"AsyncIterable", "ReadableStream", "other"}

\* the most chunks a source yields, empty ones among them
MaxWrites == 4

\* isReadableStream(chunks) ? toIter(chunks) : isAsyncIter(chunks) ? chunks
\* : null, as the fact that there is an iterator
HasIter(kind) == kind = "ReadableStream" \/ kind = "AsyncIterable"

\* parseStream up to its loop: the session is created, the iterator chosen
StreamOpen ==
  /\ op = "new"
  /\ IF HasIter(doc.kind)
       THEN op' = "for await" /\ ret' = ret
       ELSE op' = "parseStream" /\ ret' = Failure("invalid_json", <<"Invalid input">>)
  /\ UNCHANGED <<buf, depth, inStr, esc, started, src, pos, charwise, reused,
               text, doc, schema>>

\* one turn of the loop with the chunk put before the buffer
StreamWriteBefore(k) ==
  /\ op = "for await"
  /\ Len(doc.chunks) < MaxWrites
  /\ pos + k <= Len(src)
  /\ LET c  == SubSeq(src, pos + 1, pos + k)
         st == update(c, 1, [depth |-> depth, inStr |-> inStr, esc |-> esc,
                             started |-> started])
     IN /\ buf' = c \o buf
        /\ depth' = st.depth
        /\ inStr' = st.inStr
        /\ esc' = st.esc
        /\ started' = st.started
        /\ doc' = [doc EXCEPT !.chunks = Append(doc.chunks, c)]
  /\ pos' = pos + k
  /\ charwise' = (charwise /\ k = 1)
  /\ UNCHANGED <<op, ret, src, reused, text, schema>>

\* one turn of the loop: the source yields its next k characters as a chunk
\* and p.write(c) runs; what write returns is dropped
StreamWrite(k) ==
  /\ op = "for await"
  /\ Len(doc.chunks) < MaxWrites
  /\ pos + k <= Len(src)
  /\ LET c  == SubSeq(src, pos + 1, pos + k)
         st == update(c, 1, [depth |-> depth, inStr |-> inStr, esc |-> esc,
                             started |-> started])
     IN /\ buf' = buf \o c
        /\ depth' = st.depth
        /\ inStr' = st.inStr
        /\ esc' = st.esc
        /\ started' = st.started
        /\ doc' = [doc EXCEPT !.chunks = Append(doc.chunks, c)]
  /\ pos' = pos + k
  /\ charwise' = (charwise /\ k = 1)
  /\ UNCHANGED <<op, ret, src, reused, text, schema>>

\* the source is exhausted: return p.finish()
StreamFinish ==
  /\ op = "for await"
  /\ pos = Len(src)
  /\ op' = "parseStream"
  /\ ret' = finish(buf, depth, inStr, started, schema)
  /\ UNCHANGED <<buf, depth, inStr, esc, started, src, pos, charwise, reused,
               text, doc, schema>>

\* the schemas parseStream is handed here
StreamSchemas == {NoSchema, NumberSchema}

\* texts the source delivers: serialized values, and texts of brackets and
\* quotes
StreamSources ==
  Serialized \cup Texts({"[", "]", "\""}, MaxLen)
    \cup { <<"{", "\"", "a", "\"", ":", " ", "1", "}">> }

InitStream ==
  /\ Fresh
  /\ schema \in StreamSchemas
  /\ src \in StreamSources
  /\ text = <<>>
  /\ \E kind \in ChunkSources :
       doc = [pre |-> <<>>, val |-> <<>>, post |-> <<>>, fence |-> "none",
              kind |-> kind, chunks |-> <<>>]

NextStream ==
  \/ StreamOpen
  \/ \E k \in 0..MaxChunk : StreamWrite(k)
  \/ StreamFinish

SpecStream == InitStream /\ [][NextStream]_vars

\* the buffer and tracking state of a session after write was called with
\* each of the chunks from the i-th on, b and st being what it held before
RECURSIVE Fed(_, _, _, _)
Fed(chunks, i, b, st) ==
  IF i > Len(chunks) THEN [buf |-> b, st |-> st]
  ELSE Fed(chunks, i + 1, b \o chunks[i], update(chunks[i], 1, st))

\* finish() on the session p
FinishOf(p, s) == FinishIn(p.buf, p.st, s)

\* C20: parseStream writes every chunk of the source to one session in
\* arrival order and calls finish once after the source is exhausted, so its
\* result equals finish on a session fed the same chunks with write; for an
\* input that is neither an async iterable nor a ReadableStream it returns
\* Failure with code invalid_json.
C20_StreamEqualsSession ==
  op = "parseStream" =>
    IF HasIter(doc.kind)
      THEN /\ buf = src
           /\ pos = Len(src)
           /\ ret = FinishOf(Fed(doc.chunks, 1, <<>>, FreshTracking), schema)
      ELSE /\ ~ret.ok
           /\ ret.error.code = "invalid_json"
           /\ buf = <<>>

\* parseStream returned a value after the source came in three chunks or
\* more, not all of one size
C20_Witness ==
  /\ op = "parseStream"
  /\ HasIter(doc.kind)
  /\ Len(doc.chunks) >= 3
  /\ \E i, j \in 1..Len(doc.chunks) : Len(doc.chunks[i]) # Len(doc.chunks[j])
  /\ ret.ok

\* --------------------------------------------- the candidates of extractAll
ManyAlphabet == {"[", "]", "\"", "\\"}

ManySamples ==
  { <<"{", "\"", "a", "\"", ":", " ", "1", "}", " ", "a", "n", "d", " ",
      "{", "\"", "b", "\"", ":", " ", "2", "}">>,
    <<"[", "\"", "]", "\"", "]", " ", "[", "[", "1", "]", "]">>,
    <<"[", "\"", "\\", "\"", "]", "\"", "]", "x", "{", "}">>,
    <<"]", "[", "1", "]", "[", "2", "]">>,
    <<Tick, Tick, Tick, "\n", "[", "1", "]", "\n", Tick, Tick, Tick, " ",
      "[", "2", "]">> }

InitMany ==
  /\ Fresh
  /\ schema = NoSchema
  /\ src = <<>>
  /\ text \in Texts(ManyAlphabet, MaxLen) \cup ManySamples
  /\ doc = NoDoc

NextMany == Extract \/ ExtractAll

SpecMany == InitMany /\ [][NextMany]_vars

\* the depth after the first i characters of s, brackets counted outside
\* double-quoted strings only, a backslash inside a string taking the next
\* character with it
DepthAfter(s, i) == update(SubSeq(s, 1, i), 1, FreshTracking).depth

\* position i of s holds a bracket that opens at depth 0
OpensAtZero(s, i) == DepthAfter(s, i - 1) = 0 /\ DepthAfter(s, i) = 1

\* the depth is back at 0 after position j, for the first time since i
FirstBackAtZero(s, i, j) ==
  /\ j > i
  /\ DepthAfter(s, j) = 0
  /\ \A k \in i..(j - 1) : DepthAfter(s, k) # 0

\* the spans of s from a bracket opened at depth 0 to the first return to 0
Spans(s) ==
  {p \in (1..Len(s)) \X (1..Len(s)) :
     OpensAtZero(s, p[1]) /\ FirstBackAtZero(s, p[1], p[2])}

\* the texts of the spans of s that begin at position i or later, in text
\* order
RECURSIVE SpanTexts(_, _, _)
SpanTexts(s, sp, i) ==
  IF i > Len(s) THEN <<>>
  ELSE IF \E p \in sp : p[1] = i
    THEN <<SubSeq(s, i, (CHOOSE p \in sp : p[1] = i)[2])>> \o SpanTexts(s, sp, i + 1)
    ELSE SpanTexts(s, sp, i + 1)

\* no two of the spans share a position
Apart(sp) == \A p, q \in sp : p = q \/ p[2] < q[1] \/ q[2] < p[1]

\* r lists the spans of s, or the first of them
ListsSpans(r, s, sp) ==
  /\ Apart(sp)
  /\ op = "extractAll" => r.multiple = SpanTexts(s, sp, 1)
  /\ r.json = (IF sp = {} THEN Null ELSE SpanTexts(s, sp, 1)[1])

\* C22: every candidate returned by extractAll is a substring that starts at
\* a bracket opened at depth 0 and ends at the first position where the
\* depth, counted only outside double-quoted strings with backslash escapes
\* honoured, returns to 0; candidates are listed in text order and do not
\* overlap, and extract's candidate is the first of them.
C22_CandidatesAreSpans ==
  (op \in {"extract", "extractAll"} /\ text # <<>>) =>
    ListsSpans(ret, stripMd(text), Spans(stripMd(text)))

\* extractAll returned two candidates or more from a text with a bracket
\* inside a string
C22_Witness ==
  /\ op = "extractAll"
  /\ Len(ret.multiple) >= 2
  /\ \E i \in 1..Len(text) : text[i] = "\""
  /\ ret.json = ret.multiple[1]

\* ------------------------------------------------ the commas repair leaves
\* a comma of s that only white space separates from a closing bracket
CommaBeforeClose(s) ==
  \E i \in 1..Len(s) :
    /\ s[i] = ","
    /\ SkipWs(s, i + 1) <= Len(s)
    /\ s[SkipWs(s, i + 1)] \in {"}", "]"}

\* two commas of s side by side
CommaRun(s) == \E i \in 1..(Len(s) - 1) : s[i] = "," /\ s[i + 1] = ","

\* C23: after repair's post-pass cleanup, the output contains no comma
\* followed (with only whitespace between) by '}' or ']', and every run of
\* two or more consecutive commas of the input has been collapsed into a
\* single comma.
C23_CommasCleaned ==
  (op = "repair" /\ text # <<>>) =>
    (~CommaBeforeClose(ret.output) /\ ~CommaRun(ret.output))

\* ------------------------------------------------- the warnings of repair
\* a single quote of s from position i on stands outside every double-quoted
\* string, dq telling whether position i is inside one
RECURSIVE SingleQuoteOpens(_, _, _)
SingleQuoteOpens(s, i, dq) ==
  IF i > Len(s) THEN FALSE
  ELSE IF dq /\ s[i] = "\\" THEN SingleQuoteOpens(s, i + 2, dq)
  ELSE IF s[i] = "\"" THEN SingleQuoteOpens(s, i + 1, ~dq)
  ELSE IF s[i] = "'" /\ ~dq THEN TRUE
  ELSE SingleQuoteOpens(s, i + 1, dq)

\* 1 if b, else 0
Once(b) == IF b THEN 1 ELSE 0

\* the warnings w of repair on a text whose quote pass returned p
WarnedOnce(w, t, p) ==
  /\ CountCode(w, "single_quotes_replaced") = Once(SingleQuoteOpens(t, 1, FALSE))
  /\ CountCode(w, "trailing_comma_removed") = Once(CommaBeforeClose(p.r))
  /\ Len(w) = Len(p.warnings) + Once(CommaBeforeClose(p.r))

\* C24: for every input, repair's warnings contain at most one
\* single_quotes_replaced, present exactly when at least one single-quote
\* string delimiter was normalized, and at most one trailing_comma_removed,
\* present exactly when the trailing-comma removal changed the text;
\* collapsing consecutive commas adds no warning.
C24_WarningsOnce ==
  (op = "repair" /\ text # <<>>) =>
    WarnedOnce(ret.warnings, Trim(text), repairPass(Trim(text)))

\* repair collapsed a run of commas in a text with a single-quoted
\* string and warned once about the quotes and not about a comma
C24_Witness ==
  /\ op = "repair"
  /\ CommaRun(text)
  /\ ~CommaRun(ret.output)
  /\ Len(SelectSeq(text, LAMBDA c : c = "'")) >= 2
  /\ CountCode(ret.warnings, "single_quotes_replaced") = 1
  /\ CountCode(ret.warnings, "trailing_comma_removed") = 0

\* ------------------------------------------------ the numbers of parsePartial
NumAlphabet == {"[", ",", "-", "1", ".", "e"}

InitNum ==
  /\ Fresh
  /\ schema = NoSchema
  /\ src = <<>>
  /\ text \in Texts(NumAlphabet, MaxLen)
  /\ doc = NoDoc

NextNum == \E o \in OptionSets : ParsePartial(o)

SpecNum == InitNum /\ [][NextNum]_vars

\* the value v is, or holds, the number NaN
RECURSIVE HasNaN(_)
HasNaN(v) ==
  CASE v.t = "nan" -> TRUE
    [] v.t = "arr" -> \E k \in 1..Len(v.a) : HasNaN(v.a[k])
    [] v.t = "obj" -> \E k \in DOMAIN v.o : HasNaN(v.o[k])
    [] OTHER -> FALSE

\* C25: when the text consumed by parsePartial's number rule is not a
\* convertible numeric literal (a lone '-', or '-' followed by a non-digit),
\* parsePartial returns a Failure and never a Success whose data contains a
\* not-a-number value.
C25_NoNaNData == (op = "parsePartial" /\ ret.ok) => ~HasNaN(ret.data)

\* ------------------------------------------------ repair on valid JSON
\* strictly valid texts: serialized values, and strings that hold what the
\* textual passes of repair look for
ValidSamples ==
  { <<"[", "\"", "/", "/", "\"", "]">>,
    <<"[", "\"", ",", "}", "\"", "]">>,
    <<"[", "t", "r", "u", "e", ",", "f", "a", "l", "s", "e", ",", "n", "u",
      "l", "l", "]">>,
    <<"[", "1", ",", " ", "2", "]">> }

InitValid ==
  /\ Fresh
  /\ schema = NoSchema
  /\ src = <<>>
  /\ text \in Serialized \cup ValidSamples
  /\ doc = NoDoc

NextValid == Repair

SpecValid == InitValid /\ [][NextValid]_vars

\* the text t strictly parses, to the value of the strictly valid text u
SameValue(t, u) ==
  /\ ~JSONparse(t).threw
  /\ JSONparse(t).v = JSONparse(u).v

\* C27: repair preserves valid JSON: for every input that is already
\* strictly valid JSON (an array of numbers or of true/false/null, a string
\* containing '//' or ',}'), repair's output is strictly valid and parses to
\* the same value as the input.
C27_ValidPreserved ==
  (op = "repair" /\ ~JSONparse(text).threw) =>
    (ret.valid /\ SameValue(ret.output, text))

\* --------------------------------------- a value without its last brackets
\* strictly valid texts with escape sequences in their strings
EscapeSamples ==
  { <<"[", "\"", "a", "\\", "\"", "b", "\"", "]">>,
    <<"[", "\"", "\\", "\\", "\"", "]">>,
    <<"[", "\"", "\\", "n", "\"", "]">>,
    <<"{", "\"", "a", "\"", ":", "[", "\"", "\\", "t", "\"", "]", "}">> }

\* s without the closing brackets it ends with
RECURSIVE DropClosers(_)
DropClosers(s) ==
  IF s # <<>> /\ s[Len(s)] \in {"}", "]"}
    THEN DropClosers(SubSeq(s, 1, Len(s) - 1))
    ELSE s

InitTail ==
  /\ Fresh
  /\ schema = NoSchema
  /\ src = <<>>
  /\ \E v \in {Stringify(x) : x \in Bracketed} \cup EscapeSamples :
       /\ text = DropClosers(v)
       /\ doc = [pre |-> <<>>, val |-> v, post |-> <<>>, fence |-> "none"]

NextTail == ParsePartial(NoOptions)

SpecTail == InitTail /\ [][NextTail]_vars

\* C28: for every strictly valid JSON object or array text v and the text s
\* obtained from v by deleting only its final run of closing brackets,
\* parsePartial(s) with default options returns Success with the same value
\* as the strict parse of v, including strings that contain backslash escape
\* sequences.
C28_TailRestored ==
  op = "parsePartial" => (ret.ok /\ ret.data = JSONparse(doc.val).v)

\* ------------------------------------------------ a session fed fences
\* what stands between the two parts of a fenced source
FenceParts ==
  { Fence \o Fence,
    Fence \o <<"1">> \o Fence,
    Fence \o <<"j", "s", "o", "n", "\n">> \o <<"[", "]">> \o <<"\n">> \o Fence }

\* sources with a markdown fence after an opening part and before a closing
\* part
FenceSources ==
  { a \o f \o b : a \in Texts({"[", "\"", "\\"}, MaxLen - 1),
                  f \in FenceParts,
                  b \in Texts({"\"", "]"}, MaxProse) }

InitFence ==
  /\ Fresh
  /\ schema = NoSchema
  /\ src \in FenceSources
  /\ text = <<>>
  /\ doc = NoDoc

\* the source arrives in one chunk
NextFence ==
  \/ Write(Len(src) - pos)
  \/ Finish

SpecFence == InitFence /\ [][NextFence]_vars

\* the session passes the closure gate of finish
GateOpen == started /\ depth <= 0 /\ ~inStr

\* C29: whenever finish passes its closure gate (started, depth not above 0,
\* not in a string), the extractor run on the same buffer finds a candidate,
\* so finish never returns the 'No JSON found' truncated failure from a
\* structurally closed buffer, buffers that contain markdown fences
\* included.
C29_ClosedBufferHasCandidate ==
  (op = "finish" /\ GateOpen) =>
    /\ extract(buf).json # Null
    /\ ret # Failure("truncated", <<"No JSON found">>)

\* ------------------------------------------- the loops, one turn at a time
\* doParse and repairPass are walked one loop turn per step.  pos is the
\* read index i; doc holds which of the two is walked (kind), the options,
\* the rules that are open with their loops (stack, innermost last), where
\* the walk stands (pc: "value" before parseValue, "loop" at the head of the
\* innermost loop, "colon" after an object key, "done", "threw"), and for
\* repairPass its locals (st).  A frame keeps the index at which the turn of
\* its loop began (at) once a turn has begun (iter).
Frame(rule) ==
  [rule |-> rule, at |-> -1, iter |-> FALSE, esc |-> FALSE, key |-> FALSE,
   phase |-> ""]

Top == doc.stack[Len(doc.stack)]

Pop == SubSeq(doc.stack, 1, Len(doc.stack) - 1)

\* the stack with its innermost frame replaced by f
SetTop(f) == [doc.stack EXCEPT ![Len(doc.stack)] = f]

\* the frame f as a turn of its loop begins at index i
Marked(f, i) == [f EXCEPT !.at = i, !.iter = TRUE]

\* where the walk stands once a rule returned to the rules in stack
Returned(stack) == IF stack = <<>> THEN "done" ELSE "loop"

\* a step of the walk: the index, the open rules and the place after it
Walk(name, i, stack, pc) ==
  /\ pos' = i
  /\ doc' = [doc EXCEPT !.stack = stack, !.pc = pc]
  /\ op' = name
  /\ ret' = CASE pc = "done" -> [threw |-> FALSE, i |-> i]
              [] pc = "threw" -> [threw |-> TRUE]
              [] OTHER -> Void
  /\ UNCHANGED <<buf, depth, inStr, esc, started, src, charwise, reused, text,
               schema>>

\* parseValue up to the loop of the rule it calls; p is the position of the
\* first character after the white space
ValueAt(p) ==
  IF Peek(text, p) \in {"{", "["}
    THEN IF Peek(text, SkipWs(text, p + 1))
              = (IF text[p] = "{" THEN "}" ELSE "]")
           THEN Walk("parseValue", SkipWs(text, p + 1), doc.stack,
                     Returned(doc.stack))
           ELSE Walk("parseValue", SkipWs(text, p + 1) - 1,
                     Append(doc.stack,
                            Frame(IF text[p] = "{" THEN "obj" ELSE "arr")),
                     "loop")
  ELSE IF Peek(text, p) = "\""
    THEN Walk("parseValue", p, Append(doc.stack, Frame("str")), "loop")
  ELSE IF Peek(text, p) = "-" \/ IsDigit(Peek(text, p))
    THEN Walk("parseValue", IF text[p] = "-" THEN p ELSE p - 1,
              Append(doc.stack, [Frame("num") EXCEPT !.phase = "int"]), "loop")
  ELSE IF At(text, p, <<"t", "r", "u", "e">>) \/ At(text, p, <<"n", "u", "l", "l">>)
    THEN Walk("parseValue", p + 3, doc.stack, Returned(doc.stack))
  ELSE IF At(text, p, <<"f", "a", "l", "s", "e">>)
    THEN Walk("parseValue", p + 4, doc.stack, Returned(doc.stack))
  ELSE Walk("parseValue", p - 1, doc.stack, "threw")

WalkValue ==
  /\ doc.kind = "doParse"
  /\ doc.pc = "value"
  /\ ValueAt(SkipWs(text, pos + 1))

\* the loop of a rule ends with the input: return what was read, or throw
AtEnd(name, allowed, pc) ==
  IF allowed THEN Walk(name, pos, Pop, pc)
  ELSE Walk(name, pos, doc.stack, "threw")

\* one turn of the while loop of parseArr with the comma left where it is
ArrTurnKeepsComma(p) ==
  IF Peek(text, p) = "]" THEN Walk("parseArr", p, Pop, Returned(Pop))
  ELSE IF Peek(text, p) = ","
    THEN Walk("parseArr", pos, SetTop(Marked(Top, pos)), "loop")
  ELSE Walk("parseArr", p - 1, SetTop(Marked(Top, pos)), "value")

\* one turn of the while loop of parseArr, p being the position after the
\* white space
ArrTurn(p) ==
  IF Peek(text, p) = "]" THEN Walk("parseArr", p, Pop, Returned(Pop))
  ELSE IF Peek(text, p) = ","
    THEN Walk("parseArr", p, SetTop(Marked(Top, pos)), "loop")
  ELSE Walk("parseArr", p - 1, SetTop(Marked(Top, pos)), "value")

WalkArr ==
  /\ doc.kind = "doParse"
  /\ doc.pc = "loop"
  /\ Top.rule = "arr"
  /\ IF pos >= Len(text)
       THEN AtEnd("parseArr", doc.opts.allowPartialArrays, Returned(Pop))
       ELSE ArrTurn(SkipWs(text, pos + 1))

\* one turn of the while loop of parseObj up to the key: parseStr takes the
\* character at p, a quote or not
ObjTurn(p) ==
  IF Peek(text, p) = "}" THEN Walk("parseObj", p, Pop, Returned(Pop))
  ELSE IF Peek(text, p) = ","
    THEN Walk("parseObj", p, SetTop(Marked(Top, pos)), "loop")
  ELSE Walk("parseObj", p,
            Append(SetTop(Marked(Top, pos)), [Frame("str") EXCEPT !.key = TRUE]),
            "loop")

WalkObj ==
  /\ doc.kind = "doParse"
  /\ doc.pc = "loop"
  /\ Top.rule = "obj"
  /\ IF pos >= Len(text)
       THEN AtEnd("parseObj", doc.opts.allowPartialObjects, Returned(Pop))
       ELSE ObjTurn(SkipWs(text, pos + 1))

\* the turn of parseObj after its key: the colon, then the value
ColonAt(p) ==
  IF Peek(text, p) # ":"
    THEN IF doc.opts.allowPartialObjects
           THEN Walk("parseObj", p - 1, Pop, Returned(Pop))
           ELSE Walk("parseObj", p - 1, doc.stack, "threw")
    ELSE Walk("parseObj", p, doc.stack, "value")

WalkColon ==
  /\ doc.kind = "doParse"
  /\ doc.pc = "colon"
  /\ ColonAt(SkipWs(text, pos + 1))

\* where the walk stands once the string of the frame f returned
AfterStr(f) == IF f.key THEN "colon" ELSE Returned(Pop)

\* one turn of the while loop of parseStr
WalkStr ==
  /\ doc.kind = "doParse"
  /\ doc.pc = "loop"
  /\ Top.rule = "str"
  /\ IF pos >= Len(text)
       THEN AtEnd("parseStr", doc.opts.allowPartialStrings, AfterStr(Top))
     ELSE IF Top.esc
       THEN Walk("parseStr", pos + 1,
                 SetTop([Marked(Top, pos) EXCEPT !.esc = FALSE]), "loop")
     ELSE IF text[pos + 1] = "\\"
       THEN Walk("parseStr", pos + 1,
                 SetTop([Marked(Top, pos) EXCEPT !.esc = TRUE]), "loop")
     ELSE IF text[pos + 1] = "\""
       THEN Walk("parseStr", pos + 1, Pop, AfterStr(Top))
     ELSE Walk("parseStr", pos + 1, SetTop(Marked(Top, pos)), "loop")

\* parseNum after its fraction: the exponent, if any
ExponentAt(p) ==
  IF Peek(text, p) \in {"e", "E"}
    THEN Walk("parseNum",
              IF Peek(text, p + 1) \in {"+", "-"} THEN p + 1 ELSE p,
              SetTop([Frame("num") EXCEPT !.phase = "exp"]), "loop")
    ELSE Walk("parseNum", p - 1, Pop, Returned(Pop))

\* one turn of one of the three digit loops of parseNum, or what follows
\* the loop
WalkNum ==
  /\ doc.kind = "doParse"
  /\ doc.pc = "loop"
  /\ Top.rule = "num"
  /\ IF pos < Len(text) /\ IsDigit(text[pos + 1])
       THEN Walk("parseNum", pos + 1, SetTop(Marked(Top, pos)), "loop")
     ELSE IF Top.phase = "int" /\ Peek(text, pos + 1) = "."
       THEN Walk("parseNum", pos + 1,
                 SetTop([Frame("num") EXCEPT !.phase = "frac"]), "loop")
     ELSE IF Top.phase = "exp"
       THEN Walk("parseNum", pos, Pop, Returned(Pop))
     ELSE ExponentAt(pos + 1)

\* the index i and the locals st after a turn of the loop of repairPass
Go(i, st) == [i |-> i, st |-> st]

\* one turn of the branch of repairPass for '{' and ','
KeyTurn(s, i, j, st, r1) ==
  IF j > Len(s) THEN Go(j, [st EXCEPT !.r = r1])
  ELSE IF s[j] = "\""
    THEN Go(j + 1, [st EXCEPT !.r = Append(r1, "\""),
                              !.inStr = TRUE, !.strQuote = "\""])
  ELSE IF s[j] = "'"
    THEN Go(j + 1, [st EXCEPT !.r = Append(r1, "\""),
                              !.inStr = TRUE, !.strQuote = "'",
                              !.hadSingleQuote = TRUE])
  ELSE IF SkipWord(s, j) > j /\ SubSeq(s, j, SkipWord(s, j) - 1) \notin Reserved
    THEN Go(SkipWord(s, j),
            [st EXCEPT !.r = r1 \o <<"\"">> \o SubSeq(s, j, SkipWord(s, j) - 1)
                               \o <<"\"">>,
                       !.warnings = Append(st.warnings,
                                      Warn("unquoted_key_fixed"))])
  ELSE Go(SkipWord(s, j), [st EXCEPT !.r = r1])

\* a Python literal converted: k characters read, w written
LiteralTurn(i, st, k, w) ==
  Go(i + k, [st EXCEPT !.r = st.r \o w,
                       !.warnings = Append(st.warnings,
                                      Warn("python_literal_converted"))])

\* one turn of the while loop of repairPass at position i, c being s[i]
PassTurn(s, i, st, c) ==
  IF st.esc
    THEN Go(i + 1, [st EXCEPT !.esc = FALSE, !.r = st.r \o Escaped(st, c)])
  ELSE IF c = "\\" /\ st.inStr
    THEN IF st.strQuote = "'" THEN Go(i + 1, [st EXCEPT !.esc = TRUE])
         ELSE Go(i + 1, [st EXCEPT !.esc = TRUE, !.r = Append(st.r, c)])
  ELSE IF c = "\""
    THEN IF st.inStr /\ st.strQuote = "'"
           THEN Go(i + 1, [st EXCEPT !.r = st.r \o <<"\\", "\"">>])
         ELSE IF st.inStr /\ st.strQuote = "\""
           THEN Go(i + 1, [st EXCEPT !.inStr = FALSE, !.strQuote = "",
                                     !.r = Append(st.r, "\"")])
         ELSE IF st.inStr THEN Go(i + 1, [st EXCEPT !.r = Append(st.r, "\"")])
         ELSE Go(i + 1, [st EXCEPT !.inStr = TRUE, !.strQuote = "\"",
                                   !.r = Append(st.r, "\"")])
  ELSE IF c = "'"
    THEN IF st.inStr /\ st.strQuote = "\""
           THEN Go(i + 1, [st EXCEPT !.r = Append(st.r, "'")])
         ELSE IF st.inStr /\ st.strQuote = "'"
           THEN Go(i + 1, [st EXCEPT !.inStr = FALSE, !.strQuote = "",
                                     !.hadSingleQuote = TRUE,
                                     !.r = Append(st.r, "\"")])
         ELSE IF st.inStr THEN Go(i + 1, [st EXCEPT !.r = Append(st.r, "\"")])
         ELSE Go(i + 1, [st EXCEPT !.inStr = TRUE, !.strQuote = "'",
                                   !.hadSingleQuote = TRUE,
                                   !.r = Append(st.r, "\"")])
  ELSE IF st.inStr THEN Go(i + 1, [st EXCEPT !.r = Append(st.r, c)])
  ELSE IF c \in {"{", ","}
    THEN KeyTurn(s, i, SkipWs(s, i + 1), st,
                 st.r \o SubSeq(s, i, SkipWs(s, i + 1) - 1))
  ELSE IF At(s, i, <<"N", "o", "n", "e">>)
    THEN LiteralTurn(i, st, 4, <<"n", "u", "l", "l">>)
  ELSE IF At(s, i, <<"T", "r", "u", "e">>)
    THEN LiteralTurn(i, st, 4, <<"t", "r", "u", "e">>)
  ELSE IF At(s, i, <<"F", "a", "l", "s", "e">>)
    THEN LiteralTurn(i, st, 5, <<"f", "a", "l", "s", "e">>)
  ELSE Go(i + 1, [st EXCEPT !.r = Append(st.r, c)])

\* the walk of repairPass after the turn n
Passed(n) ==
  /\ pos' = n.i - 1
  /\ doc' = [doc EXCEPT !.st = n.st, !.at = pos, !.iter = TRUE]
  /\ op' = "repairPass"
  /\ ret' = Void
  /\ UNCHANGED <<buf, depth, inStr, esc, started, src, charwise, reused, text,
               schema>>

WalkPass ==
  /\ doc.kind = "repairPass"
  /\ doc.pc = "loop"
  /\ pos < Len(text)
  /\ Passed(PassTurn(text, pos + 1, doc.st, text[pos + 1]))

\* the loop of repairPass is over: the warning about single quotes, return r
WalkPassEnd ==
  /\ doc.kind = "repairPass"
  /\ doc.pc = "loop"
  /\ pos >= Len(text)
  /\ doc' = [doc EXCEPT !.pc = "done"]
  /\ op' = "repairPass"
  /\ ret' = [r |-> doc.st.r,
             warnings |-> IF doc.st.hadSingleQuote
                            THEN Append(doc.st.warnings,
                                        Warn("single_quotes_replaced"))
                            ELSE doc.st.warnings]
  /\ UNCHANGED <<buf, depth, inStr, esc, started, src, pos, charwise, reused,
               text, schema>>

WalkAlphabet == {"{", "}", "[", "\"", ",", ":", "1"}

WalkSamples ==
  { <<"[", "1", ",", "[", "2", "]", "]">>,
    <<"{", "\"", "a", "\"", ":", " ", "-", "1", ".", "5", "e", "+", "1", "}">>,
    <<"{", "a", ":", "'", "b", "\\", "'", "c", "'", ",", " ">>,
    <<"[", "\"", "\\", "\"", "\"", ",", " ", "t", "r", "u", "e", ",">>,
    <<"[", "N", "o", "n", "e", ",", "F", "a", "l", "s", "e", "]">>,
    <<"{", "a", "\"", ":", "1", ",">> }

InitWalk ==
  /\ Fresh
  /\ schema = NoSchema
  /\ src = <<>>
  /\ text \in (Texts(WalkAlphabet, MaxLen) \cup WalkSamples) \ {<<>>}
  /\ \E kind \in {"doParse", "repairPass"}, o \in {DefaultOpts, NoPartial} :
       /\ kind = "repairPass" => o = DefaultOpts
       /\ doc = [kind |-> kind, opts |-> o, stack |-> <<>>,
                 pc |-> IF kind = "doParse" THEN "value" ELSE "loop",
                 st |-> PassInit, at |-> -1, iter |-> FALSE]

NextWalk ==
  \/ WalkValue
  \/ WalkArr
  \/ WalkObj
  \/ WalkColon
  \/ WalkStr
  \/ WalkNum
  \/ WalkPass
  \/ WalkPassEnd

SpecWalk == InitWalk /\ [][NextWalk]_vars

\* a step is taken whenever one can be
SpecWalkFair == SpecWalk /\ WF_vars(NextWalk)

\* at the head of a loop that has made a turn, the index is past the index
\* at which that turn began
Advanced ==
  doc.pc = "loop" =>
    IF doc.kind = "doParse" THEN Top.iter => pos > Top.at
    ELSE doc.iter => pos > doc.at

\* the walk is over: the function returned or threw
WalkOver == doc.pc \in {"done", "threw"}

\* the walk ended as doParse and repairPass do
WalkedAsModelled ==
  WalkOver =>
    IF doc.kind = "repairPass" THEN ret = repairPass(text)
    ELSE /\ ret.threw = doParse(text, doc.opts).threw
         /\ ~ret.threw => ret.i + 1 = doParse(text, doc.opts).i

\* C31: parsePartial and repair terminate on every finite input: every loop
\* turn of the partial parser's object, array, string and number rules and
\* of the repair pass advances the read index by at least one character,
\* also when an object key does not start with a quote or the input ends
\* right after '{', ',' or ':'.
C31_LoopsAdvance == []Advanced /\ <>WalkOver

\* the walk of doParse is back at the head of the object loop after a key
\* that does not start with a quote
C31_Witness ==
  /\ doc.kind = "doParse"
  /\ doc.pc = "loop"
  /\ Top.rule = "obj"
  /\ Top.iter
  /\ text[Top.at + 1] = "a"
  /\ pos > Top.at

====
